---- MODULE Spec2Model ----
(***************************************************************************)
(* Review aggregation and scoring engine of the PR review agent            *)
(* (pr_review_agent/core/agent.py, simple_pr_review.py).                   *)
(*                                                                         *)
(* Seven specifications share this module:                                 *)
(*   ScoreSpec     the two scoring functions applied to issue lists,       *)
(*   FilterSpec    _generate_feedback (threshold filter, then score),      *)
(*   FeedbackSpec  _generate_feedback (summary, suggestions, strengths),   *)
(*   PluginSpec    agent construction and a built-in plugin's analyze,     *)
(*   FileSpec      analyze_file.py on one file, beside the engine,         *)
(*   Spec          review_pr: the file loop, the plugin loop, the result,  *)
(*   LiveSpec      review_pr with every running call taking its next step. *)
(***************************************************************************)
EXTENDS Integers, Sequences, FiniteSets, TLC

\* ------------------------------------------------------------------------
\* Bounds
\* ------------------------------------------------------------------------
MaxIssues == 5        \* longest issue list of arbitrary severities that is scored
MaxCritical == 8      \* a list of critical issues only may grow to this length
MaxFileCount == 5     \* largest len(pr_info.files_changed) in ScoreSpec/FilterSpec
MaxRaw == 4           \* longest unfiltered issue list in FilterSpec
MaxFiles == 2         \* Spec: longest pr_info.files_changed
MaxFindings == 2      \* Spec: length of a non-empty issue list an analyze call returns
MaxFbIssues == 2      \* FeedbackSpec: longest collected issue list
MaxFbVaried == 1      \* FeedbackSpec: longest list reviewed with varied descriptors
MaxPad == 10          \* FeedbackSpec: further plain files a descriptor may list
MaxLines == 2         \* FileSpec: most lines of the file analysed
MaxAgainFiles == 1    \* Spec: longest pr_info.files_changed of a call that follows another

\* ------------------------------------------------------------------------
\* IEEE-754 doubles.
\* Python floats are doubles.  Every double that occurs here is below 16
\* and is a multiple of 2^-58, so a double is held exactly as the integer
\* v = value * 2^58, written in three limbs <<a, b, c>> with
\* v = a * 2^40 + b * 2^20 + c and b, c < 2^20.
\* ------------------------------------------------------------------------
LimbBase == 2^20

DZero == <<0, 0, 0>>

\* the double literals of the source, as limbs
D_0_1 == <<26214, 419430, 419432>>     \* 0.1 = 0x1.999999999999ap-4
D_0_3 == <<78643, 209715, 209712>>     \* 0.3 = 0x1.3333333333333p-2
D_0_7 == <<183500, 838860, 838848>>    \* 0.7 = 0x1.6666666666666p-1
D_0_5 == <<131072, 0, 0>>
D_1_0 == <<262144, 0, 0>>
D_1_5 == <<393216, 0, 0>>
D_2_0 == <<524288, 0, 0>>
D_10_0 == <<2621440, 0, 0>>

\* carry propagation
DNorm(x) ==
    LET b2 == x[2] + (x[3] \div LimbBase)
    IN  <<x[1] + (b2 \div LimbBase), b2 % LimbBase, x[3] % LimbBase>>

FloorLog2(a) == CHOOSE k \in 0..29 : 2^k <= a /\ a < 2^(k+1)

\* Round an exact value to the nearest double, ties to even (the rounding of
\* every float operation).  A value in [2^k, 2^(k+1)) has ulp 2^(k-52),
\* that is 2^(k+6) units; k = FloorLog2(a) - 18.
DRound(x) ==
    IF x[1] = 0 THEN x
    ELSE LET sh == FloorLog2(x[1]) - 12
         IN  IF sh <= 0 THEN x
             ELSE LET u == 2^sh
                      q == x[3] \div u
                      r == x[3] % u
                      up == (2*r > u) \/ (2*r = u /\ q % 2 = 1)
                  IN  DNorm(<<x[1], x[2], (IF up THEN q + 1 ELSE q) * u>>)

DLess(x, y) ==
    \/ x[1] < y[1]
    \/ x[1] = y[1] /\ x[2] < y[2]
    \/ x[1] = y[1] /\ x[2] = y[2] /\ x[3] < y[3]

DLeq(x, y) == x = y \/ DLess(x, y)

\* float addition x + y
DAdd(x, y) == DRound(DNorm(<<x[1] + y[1], x[2] + y[2], x[3] + y[3]>>))

\* float subtraction x - y for x >= y
DSub(x, y) ==
    LET c0 == x[3] - y[3]
        b0 == x[2] - y[2] - (IF c0 < 0 THEN 1 ELSE 0)
        a0 == x[1] - y[1] - (IF b0 < 0 THEN 1 ELSE 0)
    IN  DRound(<<a0, IF b0 < 0 THEN b0 + LimbBase ELSE b0,
                     IF c0 < 0 THEN c0 + LimbBase ELSE c0>>)

\* float division x / m for m in {1.0, 2.0, 4.0}: exact, no rounding
DDivPow2(x, m) ==
    LET ra == x[1] % m
        rb == (ra * LimbBase + x[2]) % m
    IN  <<x[1] \div m, (ra * LimbBase + x[2]) \div m, (rb * LimbBase + x[3]) \div m>>

\* round(x, 1): Python rounds the exact binary value to the nearest tenth,
\* ties to the even digit.  The result is given in tenths (85 is 8.5).
Round1(x) ==
    LET t == DNorm(<<10 * x[1], 10 * x[2], 10 * x[3]>>)
        s == t[1] \div 2^18
        f == <<t[1] % 2^18, t[2], t[3]>>
        h == <<2^17, 0, 0>>
    IN  IF DLess(h, f) \/ (f = h /\ s % 2 = 1) THEN s + 1 ELSE s

\* ------------------------------------------------------------------------
\* Data model (core/models.py)
\* ------------------------------------------------------------------------
IssueSeverity == {"low", "medium", "high", "critical"}

\* an Optional[str]: None, or a string held in a one-element tuple
None == <<>>
Some(str) == <<str>>

\* a CodeIssue: the attributes the engine reads.  file_path is the index of
\* the file in files_changed, rule_id names the emitting plugin, suggestion is
\* an Optional[str].
CodeIssue(file_path, line_number, severity, rule_id, suggestion) ==
    [file_path |-> file_path, line_number |-> line_number, severity |-> severity,
     rule_id |-> rule_id, suggestion |-> suggestion]

\* ------------------------------------------------------------------------
\* Severity rank and filter (agent.py)
\* ------------------------------------------------------------------------
levels == [low |-> 1, medium |-> 2, high |-> 3, critical |-> 4]

get_severity_level_swapped(severity) ==
    IF severity \in DOMAIN levels
    THEN [low |-> 1, medium |-> 2, high |-> 4, critical |-> 3][severity]
    ELSE 2

get_severity_level(severity) ==
    IF severity \in DOMAIN levels THEN levels[severity] ELSE 2

\* a filter that deletes from the list it is iterating over by index: the
\* element after a deleted one is skipped
RECURSIVE filter_issues_in_place(_, _, _)
filter_issues_in_place(issues, severity_threshold, k) ==
    IF k > Len(issues) THEN issues
    ELSE IF get_severity_level(issues[k].severity) >= get_severity_level(severity_threshold)
         THEN filter_issues_in_place(issues, severity_threshold, k + 1)
         ELSE filter_issues_in_place(
                  SubSeq(issues, 1, k - 1) \o SubSeq(issues, k + 1, Len(issues)),
                  severity_threshold, k + 1)

filter_issues_deleting(issues, severity_threshold) ==
    filter_issues_in_place(issues, severity_threshold, 1)

\* the list comprehension of _generate_feedback
filter_issues(issues, severity_threshold) ==
    SelectSeq(issues, LAMBDA issue :
        get_severity_level(issue.severity) >= get_severity_level(severity_threshold))

\* ------------------------------------------------------------------------
\* Scoring (agent.py _calculate_score)
\* ------------------------------------------------------------------------
severity_penalties == [low |-> D_0_1, medium |-> D_0_3, high |-> D_0_7, critical |-> D_1_5]

penalty_of(severity) ==
    IF severity \in DOMAIN severity_penalties THEN severity_penalties[severity] ELSE D_0_3

\* the loop "for issue in issues: total_penalty += penalty", left to right
RECURSIVE total_penalty(_, _)
total_penalty(issues, k) ==
    IF k = 0 THEN DZero
    ELSE DAdd(total_penalty(issues, k - 1), penalty_of(issues[k].severity))

\* file_count ** 0.5 is exact for 1, 4 and 16
ExactRoot(n) == CHOOSE m \in 1..n : m * m = n
IsPow4(n) == n \in {1, 4, 16}

\* the score without the max(0.0, ...) clamp
ScoreExactRoot_unclamped(t, m) ==
    LET q == DDivPow2(t, m)
    IN  IF DLess(D_10_0, q) THEN 0 - Round1(DSub(q, D_10_0)) ELSE Round1(DSub(D_10_0, q))

\* round(max(0.0, 10.0 - t / m), 1) in tenths, for m = 1.0, 2.0 or 4.0
ScoreExactRoot(t, m) ==
    LET q == DDivPow2(t, m)
    IN  IF DLess(D_10_0, q) THEN 0 ELSE Round1(DSub(D_10_0, q))

\* The same for the other file counts below 36.  There file_count ** 0.5 is
\* irrational or odd, P / sqrt(n) (P the penalty in tenths) never lies
\* half-way between two integers and stays farther than 10^-5 from such a
\* point, while the double computation is within 10^-13 of the real value:
\* the result is the integer nearest to max(0, 100 - P / sqrt(n)).
ScoreRealRoot(t, n) ==
    LET P == Round1(t)
        d == CHOOSE e \in 0..P :
                /\ (e = 0 \/ (2*e - 1) * (2*e - 1) * n <= 4 * P * P)
                /\ 4 * P * P < (2*e + 1) * (2*e + 1) * n
    IN  IF d >= 100 THEN 0 ELSE 100 - d

\* the penalty normalised by the number of issues instead of the number of files
agent_calculate_score_per_issue(issues, file_count) ==
    IF issues = <<>> THEN 100
    ELSE LET t == total_penalty(issues, Len(issues))
             n == Len(issues)
         IN  IF IsPow4(n) THEN ScoreExactRoot(t, ExactRoot(n))
             ELSE ScoreRealRoot(t, n)

agent_calculate_score(issues, file_count) ==
    IF issues = <<>> THEN 100
    ELSE LET t == total_penalty(issues, Len(issues))
         IN  IF file_count = 0 THEN ScoreExactRoot(t, 1)
             ELSE IF IsPow4(file_count) THEN ScoreExactRoot(t, ExactRoot(file_count))
             ELSE ScoreRealRoot(t, file_count)

\* ------------------------------------------------------------------------
\* Scoring (simple_pr_review.py calculate_score): an unrounded double
\* ------------------------------------------------------------------------
simple_penalty_of(severity) ==
    CASE severity = "critical" -> D_2_0
      [] severity = "high" -> D_1_0
      [] severity = "medium" -> D_0_5
      [] severity = "low" -> D_0_1
      [] OTHER -> DZero

RECURSIVE simple_penalty(_, _)
simple_penalty(issues, k) ==
    IF k = 0 THEN DZero
    ELSE DAdd(simple_penalty(issues, k - 1), simple_penalty_of(issues[k].severity))

simple_calculate_score(issues) ==
    IF issues = <<>> THEN D_10_0
    ELSE LET penalty == simple_penalty(issues, Len(issues))
         IN  IF DLess(D_10_0, penalty) THEN DZero ELSE DSub(D_10_0, penalty)

\* ------------------------------------------------------------------------
\* _generate_feedback: the threshold filter, then the score of what is left
\* ------------------------------------------------------------------------
\* the score taken over the collected issues instead of the filtered ones
generate_feedback_unfiltered_score(issues, severity_threshold, file_count) ==
    LET filtered_issues == filter_issues(issues, severity_threshold)
    IN  [overall_score |-> agent_calculate_score(issues, file_count),
         issues |-> filtered_issues]

generate_feedback(issues, severity_threshold, file_count) ==
    LET filtered_issues == filter_issues(issues, severity_threshold)
    IN  [overall_score |-> agent_calculate_score(filtered_issues, file_count),
         issues |-> filtered_issues]

\* ------------------------------------------------------------------------
\* Agent construction (agent.py __init__, _initialize_analyzers)
\* ------------------------------------------------------------------------
\* the enable_* flags in the order _initialize_analyzers tests them
AnalyzerFlags == <<"pylint", "flake8", "black", "mypy", "bandit", "safety", "ai_analysis">>

RECURSIVE initialize_analyzers_from(_, _)
initialize_analyzers_from(enabled, k) ==
    IF k > Len(AnalyzerFlags) THEN <<>>
    ELSE (IF AnalyzerFlags[k] \in enabled THEN <<AnalyzerFlags[k]>> ELSE <<>>)
         \o initialize_analyzers_from(enabled, k + 1)

\* a construction that creates every plugin, whatever the flags say
initialize_analyzers_all(config) == AnalyzerFlags

\* config.enabled is the set of flags that are true
initialize_analyzers(config) == initialize_analyzers_from(config.enabled, 1)

\* AnalysisConfig(**kwargs): a pydantic model keeps the fields it declares
\* and ignores any other keyword
AnalysisConfigFields ==
    {"enable_pylint", "enable_flake8", "enable_black", "enable_mypy", "enable_bandit",
     "enable_safety", "enable_ai_analysis", "ai_provider", "custom_rules",
     "severity_threshold", "max_issues_per_file"}

AnalysisConfig(kwargs) ==
    [field \in DOMAIN kwargs \cap AnalysisConfigFields |-> kwargs[field]]

\* the penalty tables a caller may hand to AnalysisConfig, in tenths: the
\* table of the agent and the table of simple_pr_review
PenaltyTables ==
    { [low |-> 1, medium |-> 3, high |-> 7, critical |-> 15],
      [low |-> 1, medium |-> 5, high |-> 10, critical |-> 20] }

\* the configurations drawn: any severity threshold, any of these flags
\* enabled, the other flags disabled
DrawnFlags == {"pylint", "flake8"}

Configs == [severity_threshold : IssueSeverity, enabled : SUBSET DrawnFlags]

\* ------------------------------------------------------------------------
\* Providers and file eligibility (agent.py _get_provider, _should_analyze_file)
\* ------------------------------------------------------------------------
UpperCase == <<"A","B","C","D","E","F","G","H","I","J","K","L","M",
               "N","O","P","Q","R","S","T","U","V","W","X","Y","Z">>
LowerCase == <<"a","b","c","d","e","f","g","h","i","j","k","l","m",
               "n","o","p","q","r","s","t","u","v","w","x","y","z">>

\* the lower-case letter of every upper-case letter
lower_case_of ==
    [c \in {UpperCase[u] : u \in 1..26} |-> LowerCase[CHOOSE u \in 1..26 : UpperCase[u] = c]]

\* str.lower() on a string held as a tuple of characters
lower(str) ==
    [k \in 1..Len(str) |->
        IF str[k] \in DOMAIN lower_case_of THEN lower_case_of[str[k]] ELSE str[k]]

endswith(str, suffix) ==
    /\ Len(suffix) <= Len(str)
    /\ SubSeq(str, Len(str) - Len(suffix) + 1, Len(str)) = suffix

skip_extensions ==
    { <<".","p","n","g">>, <<".","j","p","g">>, <<".","j","p","e","g">>,
      <<".","g","i","f">>, <<".","s","v","g">>, <<".","i","c","o">>,
      <<".","p","d","f">>, <<".","z","i","p">>, <<".","t","a","r">>,
      <<".","g","z">>, <<".","e","x","e">>, <<".","d","l","l">> }

should_analyze_file(file_path) ==
    ~ \E ext \in skip_extensions : endswith(lower(file_path), ext)

SupportedProviders ==
    { <<"g","i","t","h","u","b">>, <<"g","i","t","l","a","b">>,
      <<"b","i","t","b","u","c","k","e","t">> }

\* the provider names and changed paths drawn
ProviderNames == { <<"G","i","t","H","u","b">>, <<"s","v","n">> }
FilePaths == { <<"a",".","p","y">>, <<"b",".","P","N","G">> }

\* ------------------------------------------------------------------------
\* Feedback synthesis (agent.py _generate_summary, _extract_suggestions,
\* _extract_strengths).  A descriptor pr_info carries files_changed (paths as
\* tuples of characters), additions and deletions.
\* ------------------------------------------------------------------------
\* "sub in str" on strings held as tuples of characters
contains(str, sub) ==
    \E k \in 1..(Len(str) - Len(sub) + 1) : SubSeq(str, k, k + Len(sub) - 1) = sub

\* the number of issues of one severity: severity_counts[severity]
RECURSIVE severity_count(_, _, _)
severity_count(issues, severity, k) ==
    IF k = 0 THEN 0
    ELSE severity_count(issues, severity, k - 1)
         + (IF issues[k].severity = severity THEN 1 ELSE 0)

\* the breakdown parts appended for the severities order[k..], count > 0 only
RECURSIVE summary_parts(_, _, _)
summary_parts(issues, order, k) ==
    IF k > Len(order) THEN <<>>
    ELSE LET count == severity_count(issues, order[k], Len(issues))
         IN  (IF count > 0 THEN <<[count |-> count, severity |-> order[k]]>> ELSE <<>>)
             \o summary_parts(issues, order, k + 1)

\* The summary string, held as the values its f-strings interpolate:
\* "Great work! No issues found in this {lines} line change across
\* {file_count} files." or "Found {issue_count} issues in {file_count}
\* files:" followed by one "{count} {severity} severity" part per entry of
\* breakdown.
generate_summary_ascending(issues, pr_info) ==
    IF Len(issues) = 0
    THEN [kind |-> "great", lines |-> pr_info.additions + pr_info.deletions,
          file_count |-> Len(pr_info.files_changed)]
    ELSE [kind |-> "found", issue_count |-> Len(issues),
          file_count |-> Len(pr_info.files_changed),
          breakdown |-> summary_parts(issues, <<"low", "medium", "high", "critical">>, 1)]

generate_summary(issues, pr_info) ==
    IF Len(issues) = 0
    THEN [kind |-> "great", lines |-> pr_info.additions + pr_info.deletions,
          file_count |-> Len(pr_info.files_changed)]
    ELSE [kind |-> "found", issue_count |-> Len(issues),
          file_count |-> Len(pr_info.files_changed),
          breakdown |-> summary_parts(issues, <<"critical", "high", "medium", "low">>, 1)]

\* "if issue.suggestion": None and the empty string are false
truthy(suggestion) == suggestion # None /\ suggestion[1] # ""

\* the local set of _extract_suggestions after the first k issues
RECURSIVE suggestions_added(_, _)
suggestions_added(issues, k) ==
    IF k = 0 THEN {}
    ELSE suggestions_added(issues, k - 1)
         \cup (IF truthy(issues[k].suggestion) THEN {issues[k].suggestion[1]} ELSE {})

\* list(a_set): the elements once each, in an order the hash seed fixes
list_of_set(S) ==
    {q \in [1..Cardinality(S) -> S] : \A x \in S : \E k \in 1..Cardinality(S) : q[k] = x}

\* a list of every truthy suggestion, repeated as often as it occurs
RECURSIVE extract_suggestions_listed(_, _)
extract_suggestions_listed(issues, k) ==
    IF k = 0 THEN <<>>
    ELSE extract_suggestions_listed(issues, k - 1)
         \o (IF truthy(issues[k].suggestion) THEN <<issues[k].suggestion[1]>> ELSE <<>>)

extract_suggestions_keeps_all(issues) ==
    {extract_suggestions_listed(issues, Len(issues))}

\* the lists _extract_suggestions may return
extract_suggestions(issues) == list_of_set(suggestions_added(issues, Len(issues)))

doc_markers == { <<".","m","d">>, <<".","r","s","t">>, <<".","t","x","t">> }
test_marker == <<"t","e","s","t">>

\* strengths that stop at the first one that applies
extract_strengths_first_only(issues, pr_info) ==
    LET files == pr_info.files_changed
    IN  IF pr_info.additions > 0 /\ pr_info.deletions > 0
        THEN <<"Good balance of additions and deletions">>
        ELSE IF Len(files) <= 10
        THEN <<"Focused changes across reasonable number of files">>
        ELSE IF \E k \in 1..Len(files) : \E ext \in doc_markers : contains(lower(files[k]), ext)
        THEN <<"Includes documentation updates">>
        ELSE IF \E k \in 1..Len(files) : contains(lower(files[k]), test_marker)
        THEN <<"Includes test updates">>
        ELSE <<>>

extract_strengths(issues, pr_info) ==
    LET files == pr_info.files_changed
        doc_files == SelectSeq(files, LAMBDA f : \E ext \in doc_markers : contains(lower(f), ext))
        test_files == SelectSeq(files, LAMBDA f : contains(lower(f), test_marker))
    IN  (IF pr_info.additions > 0 /\ pr_info.deletions > 0
         THEN <<"Good balance of additions and deletions">> ELSE <<>>)
        \o (IF Len(files) <= 10
            THEN <<"Focused changes across reasonable number of files">> ELSE <<>>)
        \o (IF doc_files # <<>> THEN <<"Includes documentation updates">> ELSE <<>>)
        \o (IF test_files # <<>> THEN <<"Includes test updates">> ELSE <<>>)

\* the score normalised by the changed lines instead of the changed files
review_feedbacks_by_lines(issues, metrics, pr_info, severity_threshold) ==
    LET base == generate_feedback(issues, severity_threshold,
                                  pr_info.additions + pr_info.deletions)
    IN  { [overall_score |-> base.overall_score,
           summary |-> generate_summary(base.issues, pr_info),
           issues |-> base.issues,
           suggestions |-> suggestions,
           strengths |-> extract_strengths(base.issues, pr_info),
           metrics |-> metrics] : suggestions \in extract_suggestions(base.issues) }

\* The ReviewFeedback values _generate_feedback may return: filter, score,
\* summary, suggestions, strengths, the metrics passed through.
review_feedbacks(issues, metrics, pr_info, severity_threshold) ==
    LET base == generate_feedback(issues, severity_threshold, Len(pr_info.files_changed))
    IN  { [overall_score |-> base.overall_score,
           summary |-> generate_summary(base.issues, pr_info),
           issues |-> base.issues,
           suggestions |-> suggestions,
           strengths |-> extract_strengths(base.issues, pr_info),
           metrics |-> metrics] : suggestions \in extract_suggestions(base.issues) }

\* ------------------------------------------------------------------------
\* simple_pr_review.py: SimpleCodeAnalyzer.analyze, generate_feedback
\* ------------------------------------------------------------------------
\* str.strip() for blanks
RECURSIVE strip(_)
strip(str) ==
    IF str = <<>> THEN str
    ELSE IF Head(str) = " " THEN strip(Tail(str))
    ELSE IF str[Len(str)] = " " THEN strip(SubSeq(str, 1, Len(str) - 1))
    ELSE str

startswith(str, prefix) ==
    /\ Len(prefix) <= Len(str)
    /\ SubSeq(str, 1, Len(prefix)) = prefix

SimpleCodeIssue(file_path, line_number, severity, category, message, suggestion) ==
    [file_path |-> file_path, line_number |-> line_number, severity |-> severity,
     category |-> category, message |-> message, suggestion |-> Some(suggestion)]

\* the checks SimpleCodeAnalyzer.analyze makes on line i
simple_line_issues(file_path, i, line) ==
    LET line_lower == strip(lower(line))
        has(str, text) == contains(str, text)
    IN  IF line_lower = <<>> \/ startswith(line_lower, <<"#">>) THEN <<>>
        ELSE
          (IF has(line, <<"p","r","i","n","t","(">>) /\ ~ has(line_lower, <<"d","e","b","u","g">>)
           THEN <<SimpleCodeIssue(file_path, i, "low", "readability",
                                  "Debug print statement found",
                                  "Remove or replace with proper logging")>>
           ELSE <<>>)
          \o (IF /\ has(line_lower, <<"p","a","s","s","w","o","r","d">>)
                 /\ has(line, <<"=">>)
                 /\ has(line, <<"\"">>)
              THEN <<SimpleCodeIssue(file_path, i, "high", "security",
                                     "Potential hardcoded password",
                                     "Use environment variables for sensitive data")>>
              ELSE <<>>)
          \o (IF Len(line) > 100
              THEN <<SimpleCodeIssue(file_path, i, "medium", "style",
                                     "Line too long",
                                     "Break long lines for better readability")>>
              ELSE <<>>)
          \o (IF has(line_lower, <<"t","o","d","o">>) \/ has(line_lower, <<"f","i","x","m","e">>)
              THEN <<SimpleCodeIssue(file_path, i, "low", "maintainability",
                                     "TODO/FIXME comment found",
                                     "Address pending tasks before merging")>>
              ELSE <<>>)
          \o (IF /\ has(line_lower, <<"e","x","c","e","p","t",":">>)
                 /\ ~ has(line_lower, <<"e","x","c","e","p","t"," ","E","x","c","e","p","t","i","o","n",":">>)
              THEN <<SimpleCodeIssue(file_path, i, "medium", "bug",
                                     "Bare except clause",
                                     "Specify exception types for better error handling")>>
              ELSE <<>>)
          \o (IF has(line_lower, <<"e","v","a","l","(">>) \/ has(line_lower, <<"e","x","e","c","(">>)
              THEN <<SimpleCodeIssue(file_path, i, "high", "security",
                                     "Use of eval/exec detected",
                                     "Avoid eval/exec for security reasons")>>
              ELSE <<>>)

\* SimpleCodeAnalyzer.analyze on the first k lines
RECURSIVE simple_analyze(_, _, _)
simple_analyze(file_path, lines, k) ==
    IF k = 0 THEN <<>>
    ELSE simple_analyze(file_path, lines, k - 1) \o simple_line_issues(file_path, k, lines[k])

analyze_file(file_path, lines) == simple_analyze(file_path, lines, Len(lines))

dot_md == <<".","m","d">>

\* the strengths of simple generate_feedback: tests before documentation,
\* documentation is a path ending in ".md"
simple_strengths(pr_info) ==
    LET files == pr_info.files_changed
    IN  (IF pr_info.additions > 0 /\ pr_info.deletions > 0
         THEN <<"Good balance of additions and deletions">> ELSE <<>>)
        \o (IF Len(files) <= 10
            THEN <<"Focused changes across reasonable number of files">> ELSE <<>>)
        \o (IF \E k \in 1..Len(files) : contains(lower(files[k]), test_marker)
            THEN <<"Includes test updates">> ELSE <<>>)
        \o (IF \E k \in 1..Len(files) : endswith(files[k], dot_md)
            THEN <<"Includes documentation updates">> ELSE <<>>)

\* the summary string of simple generate_feedback, held as generate_summary
\* holds the engine's: "Excellent work! No issues found in this ..." or
\* "Found ... issues in ... files:" and the breakdown
simple_summary(issues, pr_info) ==
    IF issues = <<>>
    THEN [kind |-> "excellent", lines |-> pr_info.additions + pr_info.deletions,
          file_count |-> Len(pr_info.files_changed)]
    ELSE [kind |-> "found", issue_count |-> Len(issues),
          file_count |-> Len(pr_info.files_changed),
          breakdown |-> summary_parts(issues, <<"critical", "high", "medium", "low">>, 1)]

\* the SimpleReviewFeedback values generate_feedback may return: the score,
\* the summary and the suggestions of all the issues it is given
simple_generate_feedback(issues, pr_info) ==
    { [overall_score |-> simple_calculate_score(issues),
       summary |-> simple_summary(issues, pr_info),
       issues |-> issues,
       suggestions |-> suggestions,
       strengths |-> simple_strengths(pr_info)] :
         suggestions \in extract_suggestions(issues) }

RECURSIVE SeqsUpTo(_, _)
SeqsUpTo(S, n) ==
    IF n = 0 THEN {<<>>}
    ELSE LET shorter == SeqsUpTo(S, n - 1)
         IN  shorter \cup {Append(q, x) : q \in shorter, x \in S}

\* What an analyze call may return for the i-th file from the j-th plugin:
\* no issue or MaxFindings issues, the n-th one on line n.  The severities drawn
\* run through the four levels with the file, the plugin and the position in
\* the list.
SeverityOrder == <<"low", "medium", "high", "critical">>

DrawnSeverity(i, j, n) == SeverityOrder[((2 * (i - 1) + (j - 1) + (n - 1)) % 4) + 1]

Findings(i, j, name) ==
    { [n \in 1..len |-> CodeIssue(i, n, DrawnSeverity(i, j, n), name, None)] :
        len \in {0, MaxFindings} }

\* ------------------------------------------------------------------------
\* State
\* ------------------------------------------------------------------------
VARIABLES
    sc_issues,      \* ScoreSpec: the issue list handed to the scoring functions
    sc_files,       \* ScoreSpec: len(pr_info.files_changed)
    sc_score,       \* ScoreSpec: result of _calculate_score, in tenths
    sc_simple,      \* ScoreSpec: result of simple calculate_score, a double
    sc_op,          \* ScoreSpec: the last step, "init", "append" or "swap"
    fl_issues,      \* FilterSpec: the issues handed to _generate_feedback
    fl_kwargs,      \* FilterSpec: the keywords the config was built from
    fl_threshold,   \* FilterSpec: config.severity_threshold
    fl_files,       \* FilterSpec: len(pr_info.files_changed)
    fl_feedback,    \* FilterSpec: the ReviewFeedback returned
    fl_op,          \* FilterSpec: the last step, "init", "append" or "again"
    fb_issues,      \* FeedbackSpec: the issues handed to _generate_feedback
    fb_metrics,     \* FeedbackSpec: the metrics handed to _generate_feedback
    fb_pr_info,     \* FeedbackSpec: the descriptor handed to _generate_feedback
    fb_threshold,   \* FeedbackSpec: config.severity_threshold
    fb_feedback,    \* FeedbackSpec: the ReviewFeedback returned
    pl_config,      \* PluginSpec: the config the agent was constructed with
    pl_key,         \* PluginSpec: an API key is set in the environment
    pl_analyzers,   \* PluginSpec: self.analyzers of the constructed agent
    pl_k,           \* PluginSpec: index in self.analyzers of the plugin called
    pl_path,        \* PluginSpec: the file_path argument of analyze
    pl_pc,          \* PluginSpec: where the analyze call stands
    pl_outcome,     \* PluginSpec: what the external tool did
    pl_temp,        \* PluginSpec: the temporary file exists on disk
    pl_json,        \* PluginSpec: the local name json of analyze is bound
    pl_pending,     \* PluginSpec: the exception propagating, or "none"
    pl_issues,      \* PluginSpec: the local issues of analyze
    fs_filename,    \* FileSpec: the file name given to analyze_file.py
    fs_content,     \* FileSpec: the lines of the file
    fs_threshold,   \* FileSpec: config.severity_threshold of the engine
    fs_issues,      \* FileSpec: the issues analyze_file returned
    fs_feedback,    \* FileSpec: the feedback of simple generate_feedback
    fs_pc,          \* FileSpec: where analyze_file.py stands
    fs_engine,      \* FileSpec: the feedback of the engine for the same issues
    pc,             \* Spec: where review_pr stands
    config,         \* Spec: self.config
    analyzers,      \* Spec: self.analyzers, plugin names in order
    provider,       \* Spec: the provider argument of review_pr
    pr_info,        \* Spec: the descriptor returned by get_pr_info
    i,              \* Spec: index in files_changed of the file being handled
    j,              \* Spec: index in analyzers of the plugin being handled
    issues,         \* Spec: the local issues of _analyze_file
    metrics,        \* Spec: the local metrics of _analyze_file (its keys)
    all_issues,     \* Spec: all_issues of review_pr
    all_metrics,    \* Spec: all_metrics of review_pr, path -> keys
    result,         \* Spec: the PRReviewResult returned, or NoResult
    post_comments,  \* Spec: the post_comments argument of review_pr
    feedback,       \* Spec: the feedback of review_pr, once generated
    posting,        \* Spec: index in feedback.issues of _post_feedback_comments
    comments,       \* Spec: the post_comment calls that returned in this call, in order
    exc,            \* Spec: the exception that left review_pr, or "none"
    g_found,        \* history: every issue an analyze call returned, in order
    g_file,         \* history: what happened on the file handled last
    g_fetch_failed, \* history: indexes of the files whose fetch failed
    g_aborted,      \* history: a plugin exception has ended a file
    g_requested,    \* history: get_pr_info has been called
    g_refused,      \* history: a post_comment call of this call has returned False
    g_again         \* history: this call follows an earlier call on the same agent

scoreVars == <<sc_issues, sc_files, sc_score, sc_simple, sc_op>>
filterVars == <<fl_issues, fl_kwargs, fl_threshold, fl_files, fl_feedback, fl_op>>
feedbackVars == <<fb_issues, fb_metrics, fb_pr_info, fb_threshold, fb_feedback>>
pluginVars == <<pl_config, pl_key, pl_analyzers, pl_k, pl_path, pl_pc, pl_outcome,
                pl_temp, pl_json, pl_pending, pl_issues>>
fileVars == <<fs_filename, fs_content, fs_threshold, fs_issues, fs_feedback, fs_pc, fs_engine>>
progVars == <<pc, config, analyzers, provider, pr_info, i, j, issues, metrics,
              all_issues, all_metrics, result, post_comments, feedback, posting, comments, exc>>
histVars == <<g_found, g_file, g_fetch_failed, g_aborted, g_requested, g_refused, g_again>>
reviewVars == <<progVars, histVars>>
vars == <<scoreVars, filterVars, feedbackVars, pluginVars, fileVars, reviewVars>>

NoResult == [kind |-> "none"]
NoFeedback == [kind |-> "none"]
\* g_file: the index of the file, the lengths of all_issues and g_found when
\* it was fetched, the plugins whose should_analyze was called, whose analyze
\* raised, whose analyze returned, whether a plugin exception ended it, and
\* the calls made for the file, in order
FileHistory(idx, start, found_start) ==
    [idx |-> idx, start |-> start, found_start |-> found_start,
     should |-> {}, analyze_raised |-> {}, analyze_ok |-> {}, aborted |-> FALSE,
     log |-> <<>>]

\* a call made for the file: get_file_content (plugin 0) or a method of the
\* plugin at an index of self.analyzers, with how it ended: "returned",
\* "raised", or for should_analyze "true" or "false"
Called(history, op, plugin, ended) ==
    [history EXCEPT !.log = Append(@, [op |-> op, plugin |-> plugin, ended |-> ended])]

NoFile == FileHistory(0, 0, 0)

\* the variables of a specification that is not running keep these values
ScoreIdle ==
    /\ sc_issues = <<>>
    /\ sc_files = 0
    /\ sc_score = 100
    /\ sc_simple = D_10_0
    /\ sc_op = "init"

ReviewIdle ==
    /\ pc = "idle"
    /\ config = [severity_threshold |-> "medium", enabled |-> {}]
    /\ analyzers = <<>>
    /\ provider = <<>>
    /\ pr_info = [files_changed |-> <<>>]
    /\ i = 0
    /\ j = 0
    /\ issues = <<>>
    /\ metrics = {}
    /\ all_issues = <<>>
    /\ all_metrics = <<>>
    /\ result = NoResult
    /\ post_comments = FALSE
    /\ feedback = NoFeedback
    /\ posting = 0
    /\ comments = <<>>
    /\ exc = "none"
    /\ g_found = <<>>
    /\ g_file = NoFile
    /\ g_fetch_failed = {}
    /\ g_aborted = FALSE
    /\ g_requested = FALSE
    /\ g_refused = FALSE
    /\ g_again = FALSE

FilterIdle ==
    /\ fl_issues = <<>>
    /\ fl_kwargs = <<>>
    /\ fl_threshold = "medium"
    /\ fl_files = 0
    /\ fl_feedback = [overall_score |-> 100, issues |-> <<>>]
    /\ fl_op = "init"

FeedbackIdle ==
    /\ fb_issues = <<>>
    /\ fb_metrics = <<>>
    /\ fb_pr_info = [files_changed |-> <<>>, additions |-> 0, deletions |-> 0]
    /\ fb_threshold = "medium"
    /\ fb_feedback = [kind |-> "none"]

NoOutcome == [raises |-> "none", returncode |-> 0, stdout |-> "none"]

PluginIdle ==
    /\ pl_config = [enabled |-> {}]
    /\ pl_key = FALSE
    /\ pl_analyzers = <<>>
    /\ pl_k = 0
    /\ pl_path = <<>>
    /\ pl_pc = "idle"
    /\ pl_outcome = NoOutcome
    /\ pl_temp = FALSE
    /\ pl_json = FALSE
    /\ pl_pending = "none"
    /\ pl_issues = <<>>

FileIdle ==
    /\ fs_filename = <<>>
    /\ fs_content = <<>>
    /\ fs_threshold = "medium"
    /\ fs_issues = <<>>
    /\ fs_feedback = [kind |-> "none"]
    /\ fs_pc = "idle"
    /\ fs_engine = [kind |-> "none"]

\* ------------------------------------------------------------------------
\* ScoreSpec: _calculate_score(issues, pr_info) and calculate_score(issues)
\* called on growing and reordered issue lists, as the unit tests call them
\* ------------------------------------------------------------------------
ScoreInit ==
    /\ sc_issues = <<>>
    /\ sc_files \in 0..MaxFileCount
    /\ sc_score = agent_calculate_score(<<>>, sc_files)
    /\ sc_simple = simple_calculate_score(<<>>)
    /\ sc_op = "init"
    /\ FilterIdle
    /\ FeedbackIdle
    /\ PluginIdle
    /\ FileIdle
    /\ ReviewIdle

Rescore(list) ==
    /\ sc_issues' = list
    /\ sc_score' = agent_calculate_score(list, sc_files)
    /\ sc_simple' = simple_calculate_score(list)
    /\ UNCHANGED <<sc_files, filterVars, feedbackVars, pluginVars, fileVars, reviewVars>>

OnlyCritical(list) == \A k \in 1..Len(list) : list[k].severity = "critical"

\* score the list with one more issue appended
ScoreAppend ==
    \E severity \in IssueSeverity :
        /\ \/ Len(sc_issues) < MaxIssues
           \/ /\ Len(sc_issues) < MaxCritical
              /\ severity = "critical"
              /\ OnlyCritical(sc_issues)
        /\ Rescore(Append(sc_issues, CodeIssue(1, 1, severity, "t", None)))
        /\ sc_op' = "append"

\* score the list with two neighbours exchanged
ScoreSwap ==
    \E k \in 1..(Len(sc_issues) - 1) :
        /\ sc_issues[k] # sc_issues[k + 1]
        /\ Rescore([sc_issues EXCEPT ![k] = sc_issues[k + 1], ![k + 1] = sc_issues[k]])
        /\ sc_op' = "swap"

ScoreNext == ScoreAppend \/ ScoreSwap

ScoreSpec == ScoreInit /\ [][ScoreNext]_vars

\* ------------------------------------------------------------------------
\* FilterSpec: _generate_feedback called on growing issue lists, and called
\* again on the issues of the feedback it returned
\* ------------------------------------------------------------------------
FilterInit ==
    /\ fl_issues = <<>>
    /\ fl_kwargs \in [severity_threshold : IssueSeverity, severity_penalties : PenaltyTables]
    /\ fl_threshold = AnalysisConfig(fl_kwargs).severity_threshold
    /\ fl_files \in 0..MaxFileCount
    /\ fl_feedback = generate_feedback(<<>>, fl_threshold, fl_files)
    /\ fl_op = "init"
    /\ ScoreIdle
    /\ FeedbackIdle
    /\ PluginIdle
    /\ FileIdle
    /\ ReviewIdle

\* one more issue collected, feedback generated
FilterAppend ==
    /\ Len(fl_issues) < MaxRaw
    /\ \E severity \in IssueSeverity :
          /\ fl_issues' = Append(fl_issues, CodeIssue(1, 1, severity, "t", None))
          /\ fl_feedback' = generate_feedback(fl_issues', fl_threshold, fl_files)
    /\ fl_op' = "append"
    /\ UNCHANGED <<fl_kwargs, fl_threshold, fl_files, scoreVars, feedbackVars, pluginVars, fileVars, reviewVars>>

\* the issues of the feedback are filtered (and scored) once more
FilterAgain ==
    /\ fl_issues # fl_feedback.issues
    /\ fl_issues' = fl_feedback.issues
    /\ fl_feedback' = generate_feedback(fl_issues', fl_threshold, fl_files)
    /\ fl_op' = "again"
    /\ UNCHANGED <<fl_kwargs, fl_threshold, fl_files, scoreVars, feedbackVars, pluginVars, fileVars, reviewVars>>

FilterNext == FilterAppend \/ FilterAgain

FilterSpec == FilterInit /\ [][FilterNext]_vars

\* ------------------------------------------------------------------------
\* FeedbackSpec: _generate_feedback called on issue lists that grow by one
\* issue, put anywhere in the list, and on descriptors and metrics that change
\* in one attribute, as the unit tests call the synthesis functions
\* ------------------------------------------------------------------------
FbThresholds == {"low", "medium"}
FbSuggestions == {None, Some(""), Some("Fix this"), Some("Fix this too")}

a_py == <<"a",".","p","y">>
readme_MD == <<"R",".","M","D">>
Test_py == <<"T","e","s","t",".","p","y">>

\* the file lists drawn: with or without a documentation file, with or
\* without a test file, followed by no or by MaxPad plain files
FbFileLists ==
    { head \o [k \in 1..n |-> a_py] :
        head \in {<<>>, <<readme_MD>>, <<Test_py>>, <<readme_MD, Test_py>>},
        n \in {0, MaxPad} }

FbDescriptors == [files_changed : FbFileLists, additions : {0, 10}, deletions : {0, 5}]

FbMetrics == { <<>>, [path \in {a_py} |-> {"pylint"}] }

\* the descriptor of the unit tests: one file, 10 additions, 5 deletions
FbDefault == [files_changed |-> <<Test_py>>, additions |-> 10, deletions |-> 5]

\* Issue lists up to MaxFbIssues are reviewed with the descriptor of the unit
\* tests and no metrics; lists up to MaxFbVaried with every descriptor and
\* metrics drawn.
FbInit ==
    /\ fb_issues = <<>>
    /\ fb_metrics = <<>>
    /\ fb_pr_info = FbDefault
    /\ fb_threshold \in FbThresholds
    /\ fb_feedback \in review_feedbacks(fb_issues, fb_metrics, fb_pr_info, fb_threshold)
    /\ ScoreIdle
    /\ FilterIdle
    /\ PluginIdle
    /\ FileIdle
    /\ ReviewIdle

\* one more issue among the collected ones, feedback generated
FbInsert ==
    /\ Len(fb_issues) < (IF fb_pr_info = FbDefault /\ fb_metrics = <<>>
                         THEN MaxFbIssues ELSE MaxFbVaried)
    /\ \E k \in 0..Len(fb_issues), severity \in IssueSeverity, suggestion \in FbSuggestions :
          fb_issues' = SubSeq(fb_issues, 1, k)
                       \o <<CodeIssue(1, 1, severity, "t", suggestion)>>
                       \o SubSeq(fb_issues, k + 1, Len(fb_issues))
    /\ fb_feedback' \in review_feedbacks(fb_issues', fb_metrics, fb_pr_info, fb_threshold)
    /\ UNCHANGED <<fb_metrics, fb_pr_info, fb_threshold, scoreVars, filterVars, pluginVars, fileVars, reviewVars>>

\* the same issues reviewed with another descriptor or other metrics
FbDescriptor ==
    /\ Len(fb_issues) <= MaxFbVaried
    /\ \/ /\ \E files \in FbFileLists :
                fb_pr_info' = [fb_pr_info EXCEPT !.files_changed = files]
             /\ UNCHANGED fb_metrics
          \/ /\ \E additions \in {0, 10} :
                fb_pr_info' = [fb_pr_info EXCEPT !.additions = additions]
             /\ UNCHANGED fb_metrics
          \/ /\ \E deletions \in {0, 5} :
                fb_pr_info' = [fb_pr_info EXCEPT !.deletions = deletions]
             /\ UNCHANGED fb_metrics
          \/ /\ fb_metrics' \in FbMetrics
             /\ UNCHANGED fb_pr_info
    /\ <<fb_pr_info', fb_metrics'>> # <<fb_pr_info, fb_metrics>>
    /\ fb_feedback' \in review_feedbacks(fb_issues, fb_metrics', fb_pr_info', fb_threshold)
    /\ UNCHANGED <<fb_issues, fb_threshold, scoreVars, filterVars, pluginVars, fileVars, reviewVars>>

FbNext == FbInsert \/ FbDescriptor

FeedbackSpec == FbInit /\ [][FbNext]_vars

\* ------------------------------------------------------------------------
\* PluginSpec: an agent is constructed from a config, then analyze of one of
\* its plugins is called on a path.  The built-in plugins (analyzers/*.py)
\* write the content to a temporary file, run an external tool, read what it
\* printed and remove the file.
\* ------------------------------------------------------------------------
requirements_txt == <<"r","e","q","u","i","r","e","m","e","n","t","s",".","t","x","t">>
dot_py == <<".","p","y">>

PlPaths == {a_py, readme_MD, requirements_txt}

\* should_analyze of the built-in plugins: Safety takes the dependency files,
\* every other plugin the paths ending in .py
plugin_should_analyze(name, file_path) ==
    IF name = "safety"
    THEN file_path \in {requirements_txt,
                        <<"s","e","t","u","p",".","p","y">>,
                        <<"p","y","p","r","o","j","e","c","t",".","t","o","m","l">>}
    ELSE endswith(file_path, dot_py)

\* the plugins that write the content to a temporary file (Safety does not)
TempFilePlugins == {"pylint", "flake8", "black", "mypy", "bandit"}
\* the plugins that execute "import json" once the tool has printed something
JsonImporters == {"pylint", "bandit", "safety"}
\* the plugins whose outer except clause names json.JSONDecodeError
JsonInExcept == {"bandit", "safety"}
\* the exceptions the outer except clause of a plugin names
caught(name) ==
    {"TimeoutExpired", "CalledProcessError", "FileNotFoundError"}
        \cup (IF name \in JsonInExcept THEN {"JSONDecodeError"} ELSE {})

\* subprocess.run: the tool is missing, runs into the timeout, is killed
\* (no output), prints something that is no report, prints a report, or
\* prints nothing
ToolOutcomes ==
    { [raises |-> "FileNotFoundError", returncode |-> 0, stdout |-> "none"],
      [raises |-> "TimeoutExpired", returncode |-> 0, stdout |-> "none"],
      [raises |-> "none", returncode |-> -11, stdout |-> "empty"],
      [raises |-> "none", returncode |-> 1, stdout |-> "garbage"],
      [raises |-> "none", returncode |-> 2, stdout |-> "garbage"],
      [raises |-> "none", returncode |-> 1, stdout |-> "report"],
      [raises |-> "none", returncode |-> 0, stdout |-> "empty"] }

\* "if result.stdout:" (Black: "if result.returncode == 1 and result.stdout:")
reads_output(name, outcome) ==
    /\ outcome.stdout # "empty"
    /\ name = "black" => outcome.returncode = 1

\* the issues a plugin makes of the output it reads: the parsers find nothing
\* in text that is no report (Pylint after falling back to its text parser),
\* Black takes any output with exit code 1 for a diff
parsed(name, outcome) ==
    IF name = "black" \/ outcome.stdout = "report"
    THEN <<CodeIssue(1, 1, IF name = "black" THEN "low" ELSE "high", name, None)>>
    ELSE <<>>

PluginInit ==
    /\ pl_config \in [enabled : SUBSET {AnalyzerFlags[k] : k \in 1..Len(AnalyzerFlags)}]
    /\ pl_key \in BOOLEAN
    /\ pl_analyzers = initialize_analyzers(pl_config)
    /\ pl_k = 0
    /\ pl_path = <<>>
    /\ pl_pc = "constructed"
    /\ pl_outcome = NoOutcome
    /\ pl_temp = FALSE
    /\ pl_json = FALSE
    /\ pl_pending = "none"
    /\ pl_issues = <<>>
    /\ ScoreIdle
    /\ FilterIdle
    /\ FeedbackIdle
    /\ FileIdle
    /\ ReviewIdle

PlOthers == UNCHANGED <<pl_config, pl_key, pl_analyzers,
                        scoreVars, filterVars, feedbackVars, fileVars, reviewVars>>

plugin == pl_analyzers[pl_k]

\* analyzer.analyze(file_path, content) is called: a new frame, no local bound
PlCall ==
    /\ pl_pc \in {"constructed", "returned", "raised"}
    /\ \E k \in 1..Len(pl_analyzers), file_path \in PlPaths :
          /\ pl_k' = k
          /\ pl_path' = file_path
    /\ pl_pc' = "called"
    /\ pl_outcome' = NoOutcome
    /\ pl_json' = FALSE
    /\ pl_pending' = "none"
    /\ pl_issues' = <<>>
    /\ UNCHANGED pl_temp
    /\ PlOthers

\* "if not self.should_analyze(file_path): return []" (the AI plugin: "or not
\* self._has_api_key()"), else "issues = []" and the try block is entered
PlEnter ==
    /\ pl_pc = "called"
    /\ pl_pc' = IF \/ ~ plugin_should_analyze(plugin, pl_path)
                   \/ plugin = "ai_analysis" /\ ~ pl_key
                THEN "returned"
                ELSE IF plugin = "ai_analysis" THEN "api"
                ELSE IF plugin \in TempFilePlugins THEN "temp" ELSE "run"
    /\ UNCHANGED <<pl_k, pl_path, pl_outcome, pl_temp, pl_json, pl_pending, pl_issues>>
    /\ PlOthers

\* with tempfile.NamedTemporaryFile(..., delete=False): the content is written
PlWriteTemp ==
    /\ pl_pc = "temp"
    /\ pl_temp' = TRUE
    /\ pl_pc' = "run"
    /\ UNCHANGED <<pl_k, pl_path, pl_outcome, pl_json, pl_pending, pl_issues>>
    /\ PlOthers

\* subprocess.run(...) returns a result
PlRunReturns ==
    /\ pl_pc = "run"
    /\ \E outcome \in ToolOutcomes :
          /\ outcome.raises = "none"
          /\ pl_outcome' = outcome
          /\ pl_pc' = IF reads_output(plugin, outcome) THEN "parse" ELSE "finally"
    /\ UNCHANGED <<pl_k, pl_path, pl_temp, pl_json, pl_pending, pl_issues>>
    /\ PlOthers

\* subprocess.run(...) raises
PlRunRaises ==
    /\ pl_pc = "run"
    /\ \E outcome \in ToolOutcomes :
          /\ outcome.raises # "none"
          /\ pl_outcome' = outcome
          /\ pl_pending' = outcome.raises
    /\ pl_pc' = "except"
    /\ UNCHANGED <<pl_k, pl_path, pl_temp, pl_json, pl_issues>>
    /\ PlOthers

\* the output is read: "import json" binds the local name json where it is
\* executed; json.loads raises JSONDecodeError on text that is no JSON, which
\* Pylint catches at once (and parses the text) and Bandit and Safety pass to
\* the outer except clause
PlParse ==
    /\ pl_pc = "parse"
    /\ pl_json' = (pl_json \/ plugin \in JsonImporters)
    /\ IF plugin \in JsonInExcept /\ pl_outcome.stdout = "garbage"
       THEN /\ pl_pending' = "JSONDecodeError"
            /\ pl_pc' = "except"
            /\ UNCHANGED pl_issues
       ELSE /\ pl_issues' = pl_issues \o parsed(plugin, pl_outcome)
            /\ pl_pc' = "finally"
            /\ UNCHANGED pl_pending
    /\ UNCHANGED <<pl_k, pl_path, pl_outcome, pl_temp>>
    /\ PlOthers

\* "except (subprocess.TimeoutExpired, ..., json.JSONDecodeError): pass".  The
\* tuple is evaluated when an exception arrives: where it names
\* json.JSONDecodeError and the local json is not yet bound, the evaluation
\* raises UnboundLocalError in place of the exception that arrived.
PlExcept ==
    /\ pl_pc = "except"
    /\ pl_pending' = IF plugin \in JsonInExcept /\ ~ pl_json THEN "UnboundLocalError"
                     ELSE IF pl_pending \in caught(plugin) THEN "none"
                     ELSE pl_pending
    /\ pl_pc' = "finally"
    /\ UNCHANGED <<pl_k, pl_path, pl_outcome, pl_temp, pl_json, pl_issues>>
    /\ PlOthers

\* "finally: if 'temp_file_path' in locals(): os.unlink(temp_file_path)",
\* then "return issues" or the pending exception leaves analyze
PlFinally ==
    /\ pl_pc = "finally"
    /\ pl_temp' = FALSE
    /\ pl_pc' = IF pl_pending = "none" THEN "returned" ELSE "raised"
    /\ UNCHANGED <<pl_k, pl_path, pl_outcome, pl_json, pl_pending, pl_issues>>
    /\ PlOthers

\* the AI plugin: the request returns or raises, "except Exception" catches
\* it, and an empty list is returned either way
PlApi ==
    /\ pl_pc = "api"
    /\ \E raises \in {"none", "ImportError"} :
          pl_outcome' = [raises |-> raises, returncode |-> 0, stdout |-> "none"]
    /\ pl_pc' = "returned"
    /\ UNCHANGED <<pl_k, pl_path, pl_temp, pl_json, pl_pending, pl_issues>>
    /\ PlOthers

PluginNext ==
    \/ PlCall
    \/ PlEnter
    \/ PlWriteTemp
    \/ PlRunReturns
    \/ PlRunRaises
    \/ PlParse
    \/ PlExcept
    \/ PlFinally
    \/ PlApi

PluginSpec == PluginInit /\ [][PluginNext]_vars

\* ------------------------------------------------------------------------
\* FileSpec: analyze_file.py on one file.  The file is read, analyze_file
\* (simple_pr_review.py) makes issues of its lines, generate_feedback makes
\* the feedback for a mock descriptor of that one file; the engine's
\* _generate_feedback is given the same issues and the same descriptor.
\* ------------------------------------------------------------------------
\* the lines and file names drawn
long_line == [k \in 1..101 |-> "x"]

FsLines ==
    { <<>>,
      <<"p","r","i","n","t","(","x",")">>,
      <<"e","v","a","l","(","x",")">>,
      <<"#"," ","t","o","d","o">>,
      <<"x"," ","T","O","D","O">>,
      long_line }

FsNames == {a_py, readme_MD, Test_py}

\* the mock descriptor analyze_file.py builds
mock_pr_info == [files_changed |-> <<fs_filename>>,
                 additions |-> Len(fs_content),
                 deletions |-> 0]

\* the file exists and has been opened; content.split('\n') has one element
\* at least
FileInit ==
    /\ fs_filename \in FsNames
    /\ fs_content \in SeqsUpTo(FsLines, MaxLines) \ {<<>>}
    /\ fs_threshold \in IssueSeverity
    /\ fs_issues = <<>>
    /\ fs_feedback = [kind |-> "none"]
    /\ fs_pc = "read"
    /\ fs_engine = [kind |-> "none"]
    /\ ScoreIdle
    /\ FilterIdle
    /\ FeedbackIdle
    /\ PluginIdle
    /\ ReviewIdle

FsOthers == UNCHANGED <<fs_filename, fs_content, fs_threshold,
                        scoreVars, filterVars, feedbackVars, pluginVars, reviewVars>>

\* issues = analyze_file(filename, content)
FsAnalyze ==
    /\ fs_pc = "read"
    /\ fs_issues' = analyze_file(fs_filename, fs_content)
    /\ fs_pc' = "analyzed"
    /\ UNCHANGED <<fs_feedback, fs_engine>>
    /\ FsOthers

\* feedback = generate_feedback(issues, pr_info)
FsFeedback ==
    /\ fs_pc = "analyzed"
    /\ fs_feedback' \in simple_generate_feedback(fs_issues, mock_pr_info)
    /\ fs_pc' = "reported"
    /\ UNCHANGED <<fs_issues, fs_engine>>
    /\ FsOthers

\* the engine's _generate_feedback on the same issues and descriptor
FsEngine ==
    /\ fs_pc = "reported"
    /\ fs_engine' \in review_feedbacks(fs_issues, <<>>, mock_pr_info, fs_threshold)
    /\ fs_pc' = "compared"
    /\ UNCHANGED <<fs_issues, fs_feedback>>
    /\ FsOthers

FileNext == FsAnalyze \/ FsFeedback \/ FsEngine

FileSpec == FileInit /\ [][FileNext]_vars

\* ------------------------------------------------------------------------
\* Spec: review_pr on a freshly constructed agent.  Each call of a
\* collaborator (provider, plugin) is a step whose outcome, a return value or
\* an exception, is chosen when the call is made.
\* ------------------------------------------------------------------------
ReviewInit ==
    /\ pc = "start"
    /\ config \in Configs
    /\ analyzers = initialize_analyzers(config)
    /\ provider \in ProviderNames
    /\ pr_info = [files_changed |-> <<>>]
    /\ i = 0
    /\ j = 0
    /\ issues = <<>>
    /\ metrics = {}
    /\ all_issues = <<>>
    /\ all_metrics = <<>>
    /\ result = NoResult
    /\ post_comments \in BOOLEAN
    /\ feedback = NoFeedback
    /\ posting = 0
    /\ comments = <<>>
    /\ exc = "none"
    /\ g_found = <<>>
    /\ g_file = NoFile
    /\ g_fetch_failed = {}
    /\ g_aborted = FALSE
    /\ g_requested = FALSE
    /\ g_refused = FALSE
    /\ g_again = FALSE
    /\ ScoreIdle
    /\ FilterIdle
    /\ FeedbackIdle
    /\ PluginIdle
    /\ FileIdle

Idle == UNCHANGED <<scoreVars, filterVars, feedbackVars, pluginVars, fileVars,
                    config, analyzers, provider, post_comments, g_again>>

\* nothing is posted, no exception leaves review_pr
NoPost == UNCHANGED <<feedback, posting, comments, exc>>

files_changed == pr_info.files_changed

\* a _get_provider that falls back to a default client for an unknown name
GetProvider_fallback ==
    /\ pc = "start"
    /\ pc' = "pr_info"
    /\ UNCHANGED <<pr_info, i, j, issues, metrics, all_issues, all_metrics, result, histVars>>
    /\ Idle
    /\ NoPost

\* pr_provider = self._get_provider(provider): a client for one of the three
\* names, ValueError for any other
GetProvider ==
    /\ pc = "start"
    /\ IF lower(provider) \in SupportedProviders
       THEN pc' = "pr_info" /\ exc' = "none"
       ELSE pc' = "raised" /\ exc' = "ValueError"
    /\ UNCHANGED <<pr_info, i, j, issues, metrics, all_issues, all_metrics, result, histVars>>
    /\ UNCHANGED <<feedback, posting, comments>>
    /\ Idle

\* pr_info = pr_provider.get_pr_info(repo, pr_number) returns a descriptor
GetPrInfoReturns ==
    /\ pc = "pr_info"
    /\ \E files \in SeqsUpTo(FilePaths, IF g_again THEN MaxAgainFiles ELSE MaxFiles) :
          pr_info' = [files_changed |-> files]
    /\ i' = 1
    /\ pc' = "files"
    /\ g_requested' = TRUE
    /\ UNCHANGED <<j, issues, metrics, all_issues, all_metrics, result,
                   g_found, g_file, g_fetch_failed, g_aborted, g_refused>>
    /\ Idle
    /\ NoPost

\* a failure of get_pr_info caught and answered with an empty descriptor
GetPrInfoRaises_swallowed ==
    /\ pc = "pr_info"
    /\ pr_info' = [files_changed |-> <<>>]
    /\ i' = 1
    /\ pc' = "files"
    /\ g_requested' = TRUE
    /\ exc' = "get_pr_info"
    /\ UNCHANGED <<j, issues, metrics, all_issues, all_metrics, result,
                   g_found, g_file, g_fetch_failed, g_aborted, g_refused>>
    /\ UNCHANGED <<feedback, posting, comments>>
    /\ Idle

\* get_pr_info raises: nothing catches it
GetPrInfoRaises ==
    /\ pc = "pr_info"
    /\ pc' = "raised"
    /\ exc' = "get_pr_info"
    /\ g_requested' = TRUE
    /\ UNCHANGED <<pr_info, i, j, issues, metrics, all_issues, all_metrics, result,
                   g_found, g_file, g_fetch_failed, g_aborted, g_refused>>
    /\ UNCHANGED <<feedback, posting, comments>>
    /\ Idle

\* "except Exception ... continue" of the file loop: the file is given up,
\* the locals of _analyze_file are lost, the loop goes on with the next file
FileGivenUp ==
    /\ i' = i + 1
    /\ j' = 0
    /\ issues' = <<>>
    /\ metrics' = {}
    /\ pc' = "files"
    /\ UNCHANGED <<pr_info, all_issues, all_metrics, result>>

\* the file loop meets a path _should_analyze_file rejects
SkipFile ==
    /\ pc = "files"
    /\ i <= Len(files_changed)
    /\ ~ should_analyze_file(files_changed[i])
    /\ i' = i + 1
    /\ UNCHANGED <<pc, pr_info, j, issues, metrics, all_issues, all_metrics, result, histVars>>
    /\ Idle
    /\ NoPost

\* get_file_content returns; _analyze_file starts with empty locals
FetchReturns ==
    /\ pc = "files"
    /\ i <= Len(files_changed)
    /\ should_analyze_file(files_changed[i])
    /\ pc' = "plugins"
    /\ j' = 1
    /\ issues' = <<>>
    /\ metrics' = {}
    /\ g_file' = Called(FileHistory(i, Len(all_issues), Len(g_found)),
                        "get_file_content", 0, "returned")
    /\ UNCHANGED <<pr_info, i, all_issues, all_metrics, result,
                   g_found, g_fetch_failed, g_aborted, g_requested, g_refused>>
    /\ Idle
    /\ NoPost

\* get_file_content called outside the try: its exception leaves review_pr
FetchRaises_unhandled ==
    /\ pc = "files"
    /\ i <= Len(files_changed)
    /\ should_analyze_file(files_changed[i])
    /\ pc' = "raised"
    /\ g_fetch_failed' = g_fetch_failed \cup {i}
    /\ g_file' = Called(FileHistory(i, Len(all_issues), Len(g_found)),
                        "get_file_content", 0, "raised")
    /\ UNCHANGED <<pr_info, i, j, issues, metrics, all_issues, all_metrics, result,
                   g_found, g_aborted, g_requested, g_refused>>
    /\ Idle
    /\ NoPost

\* get_file_content raises
FetchRaises ==
    /\ pc = "files"
    /\ i <= Len(files_changed)
    /\ should_analyze_file(files_changed[i])
    /\ FileGivenUp
    /\ g_fetch_failed' = g_fetch_failed \cup {i}
    /\ g_file' = Called(FileHistory(i, Len(all_issues), Len(g_found)),
                        "get_file_content", 0, "raised")
    /\ UNCHANGED <<g_found, g_aborted, g_requested, g_refused>>
    /\ Idle
    /\ NoPost

\* analyzer.should_analyze(file_path) returns True
ShouldAnalyzeTrue ==
    /\ pc = "plugins"
    /\ j <= Len(analyzers)
    /\ pc' = "analyze"
    /\ g_file' = Called([g_file EXCEPT !.should = @ \cup {j}], "should_analyze", j, "true")
    /\ UNCHANGED <<pr_info, i, j, issues, metrics, all_issues, all_metrics, result,
                   g_found, g_fetch_failed, g_aborted, g_requested, g_refused>>
    /\ Idle
    /\ NoPost

\* a loop that calls analyze whatever should_analyze answered
ShouldAnalyzeFalse_ignored ==
    /\ pc = "plugins"
    /\ j <= Len(analyzers)
    /\ pc' = "analyze"
    /\ g_file' = Called([g_file EXCEPT !.should = @ \cup {j}], "should_analyze", j, "false")
    /\ UNCHANGED <<pr_info, i, j, issues, metrics, all_issues, all_metrics, result,
                   g_found, g_fetch_failed, g_aborted, g_requested, g_refused>>
    /\ Idle
    /\ NoPost

\* analyzer.should_analyze(file_path) returns False
ShouldAnalyzeFalse ==
    /\ pc = "plugins"
    /\ j <= Len(analyzers)
    /\ j' = j + 1
    /\ g_file' = Called([g_file EXCEPT !.should = @ \cup {j}], "should_analyze", j, "false")
    /\ UNCHANGED <<pc, pr_info, i, issues, metrics, all_issues, all_metrics, result,
                   g_found, g_fetch_failed, g_aborted, g_requested, g_refused>>
    /\ Idle
    /\ NoPost

\* analyzer.should_analyze(file_path) raises: the call is outside the try of
\* _analyze_file, the exception reaches the except of the file loop
ShouldAnalyzeRaises ==
    /\ pc = "plugins"
    /\ j <= Len(analyzers)
    /\ FileGivenUp
    /\ g_file' = Called([g_file EXCEPT !.should = @ \cup {j}, !.aborted = TRUE],
                        "should_analyze", j, "raised")
    /\ g_aborted' = TRUE
    /\ UNCHANGED <<g_found, g_fetch_failed, g_requested, g_refused>>
    /\ Idle
    /\ NoPost

\* analyzer.analyze(file_path, content) returns; issues.extend(file_issues)
AnalyzeReturns ==
    /\ pc = "analyze"
    /\ \E file_issues \in Findings(i, j, analyzers[j]) :
          /\ issues' = issues \o file_issues
          /\ g_found' = g_found \o file_issues
    /\ g_file' = Called([g_file EXCEPT !.analyze_ok = @ \cup {j}], "analyze", j, "returned")
    /\ pc' = "metrics"
    /\ UNCHANGED <<pr_info, i, j, metrics, all_issues, all_metrics, result,
                   g_fetch_failed, g_aborted, g_requested, g_refused>>
    /\ Idle
    /\ NoPost

\* analyzer.analyze raises: the except clause is entered
AnalyzeRaises ==
    /\ pc = "analyze"
    /\ pc' = "name"
    /\ g_file' = Called([g_file EXCEPT !.analyze_raised = @ \cup {j}], "analyze", j, "raised")
    /\ UNCHANGED <<pr_info, i, j, issues, metrics, all_issues, all_metrics, result,
                   g_found, g_fetch_failed, g_aborted, g_requested, g_refused>>
    /\ Idle
    /\ NoPost

\* analyzer.get_metrics returns a dict with a key of its own;
\* metrics.update(file_metrics)
MetricsReturns ==
    /\ pc = "metrics"
    /\ metrics' = metrics \cup {analyzers[j]}
    /\ j' = j + 1
    /\ pc' = "plugins"
    /\ g_file' = Called(g_file, "get_metrics", j, "returned")
    /\ UNCHANGED <<pr_info, i, issues, all_issues, all_metrics, result,
                   g_found, g_fetch_failed, g_aborted, g_requested, g_refused>>
    /\ Idle
    /\ NoPost

\* a get_metrics that raises after its keys have been merged into metrics
MetricsRaises_merged ==
    /\ pc = "metrics"
    /\ pc' = "name"
    /\ metrics' = metrics \cup {analyzers[j]}
    /\ g_file' = Called(g_file, "get_metrics", j, "raised")
    /\ UNCHANGED <<pr_info, i, j, issues, all_issues, all_metrics, result,
                   g_found, g_fetch_failed, g_aborted, g_requested, g_refused>>
    /\ Idle
    /\ NoPost

\* analyzer.get_metrics raises: the except clause is entered
MetricsRaises ==
    /\ pc = "metrics"
    /\ pc' = "name"
    /\ g_file' = Called(g_file, "get_metrics", j, "raised")
    /\ UNCHANGED <<pr_info, i, j, issues, metrics, all_issues, all_metrics, result,
                   g_found, g_fetch_failed, g_aborted, g_requested, g_refused>>
    /\ Idle
    /\ NoPost

\* an except clause that calls analyze of the same plugin again
NameReturns_retries ==
    /\ pc = "name"
    /\ pc' = "analyze"
    /\ g_file' = Called(g_file, "get_name", j, "returned")
    /\ UNCHANGED <<pr_info, i, j, issues, metrics, all_issues, all_metrics, result,
                   g_found, g_fetch_failed, g_aborted, g_requested, g_refused>>
    /\ Idle
    /\ NoPost

\* an except clause that also drops the issues collected so far for the file
NameReturns_clears ==
    /\ pc = "name"
    /\ j' = j + 1
    /\ issues' = <<>>
    /\ pc' = "plugins"
    /\ g_file' = Called(g_file, "get_name", j, "returned")
    /\ UNCHANGED <<pr_info, i, metrics, all_issues, all_metrics, result,
                   g_found, g_fetch_failed, g_aborted, g_requested, g_refused>>
    /\ Idle
    /\ NoPost

\* the except clause prints analyzer.get_name() and continues
NameReturns ==
    /\ pc = "name"
    /\ j' = j + 1
    /\ pc' = "plugins"
    /\ g_file' = Called(g_file, "get_name", j, "returned")
    /\ UNCHANGED <<pr_info, i, issues, metrics, all_issues, all_metrics, result,
                   g_found, g_fetch_failed, g_aborted, g_requested, g_refused>>
    /\ Idle
    /\ NoPost

\* analyzer.get_name() raises inside the except clause: the exception leaves
\* _analyze_file and reaches the except of the file loop
NameRaises ==
    /\ pc = "name"
    /\ FileGivenUp
    /\ g_file' = Called([g_file EXCEPT !.aborted = TRUE], "get_name", j, "raised")
    /\ g_aborted' = TRUE
    /\ UNCHANGED <<g_found, g_fetch_failed, g_requested, g_refused>>
    /\ Idle
    /\ NoPost

\* the issues of the file put in front of the ones collected before
ReturnFile_prepends ==
    /\ pc = "plugins"
    /\ j > Len(analyzers)
    /\ all_issues' = issues \o all_issues
    /\ all_metrics' = [path \in DOMAIN all_metrics \cup {files_changed[i]} |->
                          IF path = files_changed[i] THEN metrics ELSE all_metrics[path]]
    /\ i' = i + 1
    /\ j' = 0
    /\ issues' = <<>>
    /\ metrics' = {}
    /\ pc' = "files"
    /\ UNCHANGED <<pr_info, result, histVars>>
    /\ Idle
    /\ NoPost

\* _analyze_file returns; all_issues.extend, all_metrics[file_path] = ...
ReturnFile ==
    /\ pc = "plugins"
    /\ j > Len(analyzers)
    /\ all_issues' = all_issues \o issues
    /\ all_metrics' = [path \in DOMAIN all_metrics \cup {files_changed[i]} |->
                          IF path = files_changed[i] THEN metrics ELSE all_metrics[path]]
    /\ i' = i + 1
    /\ j' = 0
    /\ issues' = <<>>
    /\ metrics' = {}
    /\ pc' = "files"
    /\ UNCHANGED <<pr_info, result, histVars>>
    /\ Idle
    /\ NoPost

\* a result that counts the files _analyze_file returned for
PRReviewResult_counted ==
    [kind |-> "result",
     feedback |-> feedback',
     metrics |-> all_metrics,
     provider |-> provider,
     files_analyzed |-> Cardinality(DOMAIN all_metrics)]

\* return PRReviewResult(...)
PRReviewResult ==
    [kind |-> "result",
     feedback |-> feedback',
     metrics |-> all_metrics,
     provider |-> provider,
     files_analyzed |-> Len(files_changed)]

\* after the loop, post_comments false: _generate_feedback, then the
\* PRReviewResult is returned
GenerateFeedback ==
    /\ pc = "files"
    /\ i > Len(files_changed)
    /\ ~ post_comments
    /\ feedback' = generate_feedback(all_issues, config.severity_threshold,
                                     Len(files_changed))
    /\ result' = PRReviewResult
    /\ pc' = "done"
    /\ UNCHANGED <<pr_info, i, j, issues, metrics, all_issues, all_metrics, histVars>>
    /\ UNCHANGED <<posting, comments, exc>>
    /\ Idle

\* after the loop, post_comments true: _generate_feedback, then
\* _post_feedback_comments is entered
GenerateFeedbackToPost ==
    /\ pc = "files"
    /\ i > Len(files_changed)
    /\ post_comments
    /\ feedback' = generate_feedback(all_issues, config.severity_threshold,
                                     Len(files_changed))
    /\ pc' = "post_summary"
    /\ UNCHANGED <<pr_info, i, j, issues, metrics, all_issues, all_metrics, result, histVars>>
    /\ UNCHANGED <<posting, comments, exc>>
    /\ Idle

\* provider.post_comment(repo, pr_number, summary) returns True or False;
\* what it returns is not read
PostSummaryReturns ==
    /\ pc = "post_summary"
    /\ comments' = Append(comments, [kind |-> "summary"])
    /\ \E returned \in BOOLEAN : g_refused' = (g_refused \/ ~ returned)
    /\ posting' = 1
    /\ pc' = "post_issues"
    /\ UNCHANGED <<pr_info, i, j, issues, metrics, all_issues, all_metrics, result,
                   g_found, g_file, g_fetch_failed, g_aborted, g_requested>>
    /\ UNCHANGED <<feedback, exc>>
    /\ Idle

\* a post_comment failure that is caught: review_pr goes on to return
PostRaises_swallowed ==
    /\ \/ pc = "post_summary"
       \/ /\ pc = "post_issues"
          /\ posting <= Len(feedback.issues)
          /\ feedback.issues[posting].severity \in {"high", "critical"}
    /\ pc' = "post_issues"
    /\ posting' = posting + 1
    /\ exc' = "post_comment"
    /\ UNCHANGED <<pr_info, i, j, issues, metrics, all_issues, all_metrics, result, histVars>>
    /\ UNCHANGED <<feedback, comments>>
    /\ Idle

\* a post_comment call raises: nothing catches it
PostRaises ==
    /\ \/ pc = "post_summary"
       \/ /\ pc = "post_issues"
          /\ posting <= Len(feedback.issues)
          /\ feedback.issues[posting].severity \in {"high", "critical"}
    /\ pc' = "raised"
    /\ exc' = "post_comment"
    /\ UNCHANGED <<pr_info, i, j, issues, metrics, all_issues, all_metrics, result, histVars>>
    /\ UNCHANGED <<feedback, posting, comments>>
    /\ Idle

\* a loop that posts critical issues only
PostSkipsIssue_high ==
    /\ pc = "post_issues"
    /\ posting <= Len(feedback.issues)
    /\ feedback.issues[posting].severity # "critical"
    /\ posting' = posting + 1
    /\ UNCHANGED <<pc, pr_info, i, j, issues, metrics, all_issues, all_metrics, result, histVars>>
    /\ UNCHANGED <<feedback, comments, exc>>
    /\ Idle

\* "for issue in feedback.issues": an issue that is not high or critical
PostSkipsIssue ==
    /\ pc = "post_issues"
    /\ posting <= Len(feedback.issues)
    /\ feedback.issues[posting].severity \notin {"high", "critical"}
    /\ posting' = posting + 1
    /\ UNCHANGED <<pc, pr_info, i, j, issues, metrics, all_issues, all_metrics, result, histVars>>
    /\ UNCHANGED <<feedback, comments, exc>>
    /\ Idle

\* post_comment(repo, pr_number, comment, file_path=..., line_number=...)
\* returns for a high or critical issue
PostIssueReturns ==
    /\ pc = "post_issues"
    /\ posting <= Len(feedback.issues)
    /\ feedback.issues[posting].severity \in {"high", "critical"}
    /\ comments' = Append(comments, [kind |-> "issue",
                                      severity |-> feedback.issues[posting].severity,
                                      file_path |-> feedback.issues[posting].file_path,
                                      line_number |-> feedback.issues[posting].line_number])
    /\ \E returned \in BOOLEAN : g_refused' = (g_refused \/ ~ returned)
    /\ posting' = posting + 1
    /\ UNCHANGED <<pc, pr_info, i, j, issues, metrics, all_issues, all_metrics, result,
                   g_found, g_file, g_fetch_failed, g_aborted, g_requested>>
    /\ UNCHANGED <<feedback, exc>>
    /\ Idle

\* _post_feedback_comments returns; the PRReviewResult is returned
ReturnResult ==
    /\ pc = "post_issues"
    /\ posting > Len(feedback.issues)
    /\ UNCHANGED <<feedback, posting, comments, exc>>
    /\ result' = PRReviewResult
    /\ pc' = "done"
    /\ UNCHANGED <<pr_info, i, j, issues, metrics, all_issues, all_metrics, histVars>>
    /\ Idle

\* a caller that keeps what the call before had collected: all_issues and
\* all_metrics live on the agent and are never emptied
ReviewAgain_retains ==
    /\ pc \in {"done", "raised"}
    /\ all_issues # <<>>
    /\ g_again' = TRUE
    /\ g_refused' = FALSE
    /\ provider' \in ProviderNames
    /\ post_comments' \in BOOLEAN
    /\ pc' = "start"
    /\ pr_info' = [files_changed |-> <<>>]
    /\ i' = 0
    /\ j' = 0
    /\ issues' = <<>>
    /\ metrics' = {}
    /\ UNCHANGED <<all_issues, all_metrics>>
    /\ result' = NoResult
    /\ feedback' = NoFeedback
    /\ posting' = 0
    /\ comments' = <<>>
    /\ exc' = "none"
    /\ g_found' = <<>>
    /\ g_file' = NoFile
    /\ g_fetch_failed' = {}
    /\ g_aborted' = FALSE
    /\ g_requested' = FALSE
    /\ UNCHANGED <<scoreVars, filterVars, feedbackVars, pluginVars, fileVars, config, analyzers>>

\* review_pr has returned or raised and is called again on the same agent:
\* the frame of the call that ended is gone, the new call has its own
\* arguments and locals (all_issues = [], all_metrics = {}), and review_pr
\* has assigned no attribute of self.  Followed up are the calls made after a
\* call that collected issues; a call made after one that collected none
\* starts as a first call does.
ReviewAgain ==
    /\ pc \in {"done", "raised"}
    /\ all_issues # <<>>
    /\ g_again' = TRUE
    /\ g_refused' = FALSE
    /\ provider' \in ProviderNames
    /\ post_comments' \in BOOLEAN
    /\ pc' = "start"
    /\ pr_info' = [files_changed |-> <<>>]
    /\ i' = 0
    /\ j' = 0
    /\ issues' = <<>>
    /\ metrics' = {}
    /\ all_issues' = <<>>
    /\ all_metrics' = <<>>
    /\ result' = NoResult
    /\ feedback' = NoFeedback
    /\ posting' = 0
    /\ comments' = <<>>
    /\ exc' = "none"
    /\ g_found' = <<>>
    /\ g_file' = NoFile
    /\ g_fetch_failed' = {}
    /\ g_aborted' = FALSE
    /\ g_requested' = FALSE
    /\ UNCHANGED <<scoreVars, filterVars, feedbackVars, pluginVars, fileVars, config, analyzers>>

Next ==
    \/ GetProvider
    \/ GetPrInfoReturns
    \/ GetPrInfoRaises
    \/ SkipFile
    \/ FetchReturns
    \/ FetchRaises
    \/ ShouldAnalyzeTrue
    \/ ShouldAnalyzeFalse
    \/ ShouldAnalyzeRaises
    \/ AnalyzeReturns
    \/ AnalyzeRaises
    \/ MetricsReturns
    \/ MetricsRaises
    \/ NameReturns
    \/ NameRaises
    \/ ReturnFile
    \/ GenerateFeedback
    \/ GenerateFeedbackToPost
    \/ PostSummaryReturns
    \/ PostRaises
    \/ PostSkipsIssue
    \/ PostIssueReturns
    \/ ReturnResult
    \/ ReviewAgain

Spec == ReviewInit /\ [][Next]_vars

\* review_pr is one sequential function: while a call of it is running, the
\* collaborator call it waits for returns or raises and the statement after
\* it is executed.  Nothing obliges the caller to call review_pr again.
InCall == pc \notin {"done", "raised"} /\ Next

\* an agent whose first review is asked for without comment posting
LiveInit == ReviewInit /\ ~ post_comments

\* Weak fairness of the steps of a running call, WF_vars(InCall), with its
\* enabledness written out: a call that has neither returned nor raised always
\* has a step to take, and each of its steps changes pc, i, j or posting, so
\* ENABLED <<InCall>>_vars is pc \notin {"done", "raised"}.
LiveSpec ==
    /\ LiveInit
    /\ [][Next]_vars
    /\ ([]<>(pc \in {"done", "raised"}) \/ []<><<InCall>>_vars)

\* ------------------------------------------------------------------------
\* Properties
\* ------------------------------------------------------------------------

\* C1: for every issue list and every file count the score of _calculate_score
\* lies in 0.0 .. 10.0 (0 .. 100 tenths), and so does the score of the simple
\* calculate_score: the range validation of ReviewFeedback cannot fail.
C1_ScoreInRange ==
    /\ sc_score \in 0..100
    /\ DLeq(DZero, sc_simple) /\ DLeq(sc_simple, D_10_0)

\* C1 witness: a list whose penalty exceeds 10.0 has been scored by both
C1_Witness ==
    /\ sc_op = "append"
    /\ Len(sc_issues) >= 7
    /\ sc_files <= 1
    /\ sc_score = 0
    /\ sc_simple = DZero

\* C2: whenever the filtered issue list is empty the score is exactly 10.0,
\* whatever the file count and however many issues the filter dropped.
C2_EmptyIsPerfect ==
    fl_feedback.issues = <<>> => fl_feedback.overall_score = 100

\* C2 witness: an empty change whose collected issues were all dropped
C2_Witness ==
    /\ fl_op = "append"
    /\ Len(fl_issues) >= 2
    /\ fl_files = 0
    /\ fl_feedback.issues = <<>>
    /\ fl_feedback.overall_score = 100

\* the ranks of the claim
C3_Rank == [low |-> 1, medium |-> 2, high |-> 3, critical |-> 4]

C3_AtOrAbove(list, threshold) ==
    SelectSeq(list, LAMBDA issue : C3_Rank[issue.severity] >= C3_Rank[threshold])

\* C3: with ranks low=1, medium=2, high=3, critical=4 the issues of the
\* feedback are exactly the collected issues whose rank is at least the rank of
\* the threshold: none below it survives, none at or above it is dropped.
C3_ThresholdFilter ==
    /\ fl_feedback.issues = C3_AtOrAbove(fl_issues, fl_threshold)
    /\ \A k \in 1..Len(fl_issues) :
          (\E m \in 1..Len(fl_feedback.issues) : fl_feedback.issues[m] = fl_issues[k])
              <=> C3_Rank[fl_issues[k].severity] >= C3_Rank[fl_threshold]

\* C3 witness: at threshold high a critical issue survived and a low one did not
C3_Witness ==
    /\ fl_op = "append"
    /\ fl_threshold = "high"
    /\ \E k \in 1..Len(fl_issues) : fl_issues[k].severity = "low"
    /\ \E k \in 1..Len(fl_issues) : fl_issues[k].severity = "critical"
    /\ \E m \in 1..Len(fl_feedback.issues) : fl_feedback.issues[m].severity = "critical"
    /\ \A m \in 1..Len(fl_feedback.issues) : fl_feedback.issues[m].severity # "low"

\* the file handled last has been left, by _analyze_file returning or by an
\* exception, and the file loop stands before the next file or has returned
FileLeft == pc \in {"files", "done"} /\ g_file.idx # 0

\* what the file handled last added to all_issues, and what the analyze calls
\* on it returned
FileIssues == SubSeq(all_issues, g_file.start + 1, Len(all_issues))
FileFound == SubSeq(g_found, g_file.found_start + 1, Len(g_found))

\* on the file handled last a plugin's analyze raised, another plugin's
\* analyze returned, and _analyze_file returned
C4_Scenario ==
    /\ FileLeft
    /\ g_file.analyze_raised # {}
    /\ g_file.analyze_ok # {}
    /\ ~ g_file.aborted

\* C4: if one plugin's analyze raises for a file and another plugin's analyze
\* succeeds on it, in either order, the review goes on to return a result, no
\* failure of a plugin reaches the caller (once a file has been handled only a
\* failing post_comment does), and the issues collected and returned for that
\* file are exactly the findings of the succeeding plugins (in the feedback:
\* those of them that meet the severity threshold).
C4_AnalyzeFailureIsolated ==
    /\ pc = "raised" => (g_file.idx = 0 \/ exc = "post_comment")
    /\ C4_Scenario =>
          /\ FileIssues = FileFound
          /\ \A k \in 1..Len(FileIssues) :
                \E p \in g_file.analyze_ok : FileIssues[k].rule_id = analyzers[p]
          /\ pc = "done" =>
                SelectSeq(result.feedback.issues,
                          LAMBDA issue : issue.file_path = g_file.idx)
                    = C3_AtOrAbove(FileFound, config.severity_threshold)

\* C4 witness: the second plugin's analyze raised after the first one's had
\* returned an issue, and the review returned that issue
C4_Witness ==
    /\ pc = "done"
    /\ C4_Scenario
    /\ g_file.analyze_raised = {2}
    /\ \E k \in 1..Len(result.feedback.issues) :
          result.feedback.issues[k].file_path = g_file.idx

\* C5: if the content fetch of some changed files fails, review_pr still
\* returns a result (no failed fetch reaches the caller; only a failing
\* post_comment does); a file whose fetch failed contributes no issue; every
\* other eligible file is offered to every plugin and the result holds what
\* the plugins found on those files, wherever the failing files stand.
C5_FetchFailureIsolated ==
    g_fetch_failed # {} =>
        /\ pc = "raised" => exc = "post_comment"
        /\ \A k \in 1..Len(all_issues) : all_issues[k].file_path \notin g_fetch_failed
        /\ \A k \in 1..Len(g_found) : g_found[k].file_path \notin g_fetch_failed
        /\ (FileLeft /\ g_file.idx \notin g_fetch_failed /\ ~ g_file.aborted)
              => g_file.should = 1..Len(analyzers)
        /\ (pc = "done" /\ ~ g_aborted)
              => result.feedback.issues = C3_AtOrAbove(g_found, config.severity_threshold)

\* C5 witness: the first file's fetch failed, a later file was analysed by two
\* plugins and its issues were returned
C5_Witness ==
    /\ pc = "done"
    /\ 1 \in g_fetch_failed
    /\ ~ g_aborted
    /\ Len(analyzers) = 2
    /\ g_file.should = {1, 2}
    /\ result.feedback.issues # <<>>

\* C6: whichever operation of a plugin raises on a file (should_analyze,
\* analyze, get_metrics, get_name), every plugin is still offered the file and
\* every issue an analyze call returned, also before the failure, is kept and
\* returned.
C6_PluginFailureIsolated ==
    /\ (FileLeft /\ g_file.idx \notin g_fetch_failed)
          => g_file.should = 1..Len(analyzers)
    /\ pc \in {"files", "done"} => all_issues = g_found
    /\ pc = "done"
          => result.feedback.issues = C3_AtOrAbove(g_found, config.severity_threshold)

\* the weights of the claim, in tenths
C7_Weight == [low |-> 1, medium |-> 3, high |-> 7, critical |-> 15]

RECURSIVE C7_P(_, _)
C7_P(list, k) == IF k = 0 THEN 0 ELSE C7_P(list, k - 1) + C7_Weight[list[k].severity]

\* s is within half a tenth of max(0, 100 - P / sqrt(n)), in tenths
C7_Near(s, P, n) ==
    LET d == 100 - s
        notBelow == (2*d - 1 <= 0) \/ ((2*d - 1) * (2*d - 1) * n <= 4 * P * P)
        notAbove == 4 * P * P <= (2*d + 1) * (2*d + 1) * n
    IN  IF s = 0 THEN notBelow ELSE notBelow /\ notAbove

\* max(0, 100 - P / sqrt(n)) rounded to an integer, a tie going to the even one
C7_Rounded(P, n) ==
    CHOOSE s \in 0..100 :
        /\ C7_Near(s, P, n)
        /\ \A s2 \in 0..100 : C7_Near(s2, P, n) => (s2 = s \/ s % 2 = 0)

\* C7: for a non-empty list the score is max(0, 10 - P / sqrt(n)) rounded to
\* one decimal, P the sum of the weights 0.1 / 0.3 / 0.7 / 1.5 and n the
\* number of changed files, 0 counted as 1.
C7_ScoreFormula ==
    sc_issues # <<>> =>
        sc_score = C7_Rounded(C7_P(sc_issues, Len(sc_issues)),
                              IF sc_files = 0 THEN 1 ELSE sc_files)

\* C8: for a fixed file count, appending an issue never raises the score.
C8_Monotone ==
    [][sc_op' = "append" => sc_score' <= sc_score]_vars

\* C8 witness: an issue has been appended to a non-empty list and lowered the score
C8_Witness ==
    /\ sc_op = "append"
    /\ Len(sc_issues) >= 2
    /\ sc_score < 100

\* C9: a permutation of the same issue list gives the same score.
C9_PermutationInvariant ==
    [][sc_op' = "swap" => sc_score' = sc_score]_vars

\* C10: filtering the already filtered list again at the same threshold
\* returns the same list, same issues in the same order.
C10_FilterIdempotent ==
    [][fl_op' = "again" => fl_feedback'.issues = fl_feedback.issues]_vars

\* C10 witness: a filtered list that had lost issues has been filtered again
C10_Witness ==
    /\ fl_op = "again"
    /\ fl_feedback.issues # <<>>
    /\ fl_issues = fl_feedback.issues

\* the non-empty suggestion texts of the issues of a list
C11_Texts(list) ==
    { list[k].suggestion[1] :
        k \in {m \in 1..Len(list) : list[m].suggestion # None /\ list[m].suggestion # Some("")} }

\* C11: the suggestions of the feedback hold no string twice, hold no empty
\* string, and hold exactly the distinct non-empty suggestion texts of the
\* filtered issues: a missing or empty suggestion adds nothing, a text several
\* issues carry is there once.
C11_SuggestionsDistinct ==
    fb_feedback # [kind |-> "none"] =>
        LET suggestions == fb_feedback.suggestions
        IN  /\ \A a, b \in 1..Len(suggestions) : a # b => suggestions[a] # suggestions[b]
            /\ \A a \in 1..Len(suggestions) : suggestions[a] # ""
            /\ {suggestions[a] : a \in 1..Len(suggestions)} = C11_Texts(fb_feedback.issues)

\* C11 witness: two filtered issues carry the same text, and it is there once
C11_Witness ==
    /\ fb_feedback # [kind |-> "none"]
    /\ Len(fb_feedback.issues) = 2
    /\ fb_feedback.issues[1].suggestion = Some("Fix this")
    /\ fb_feedback.issues[2].suggestion = Some("Fix this")
    /\ fb_feedback.suggestions = <<"Fix this">>

\* C12: the score depends on the filtered issues and the number of changed
\* files only.  Two reviews at the same threshold one step apart, whose
\* descriptors list the same number of files and whose collected issues agree
\* on the issues at or above the threshold (they differ in an issue below it,
\* in additions or deletions, in file names or in metrics), give the same score.
C12_ScoreOfFilteredOnly ==
    [][(/\ fb_threshold' = fb_threshold
        /\ Len(fb_pr_info'.files_changed) = Len(fb_pr_info.files_changed)
        /\ C3_AtOrAbove(fb_issues', fb_threshold) = C3_AtOrAbove(fb_issues, fb_threshold))
            => fb_feedback'.overall_score = fb_feedback.overall_score]_vars

\* C12 witness: a review whose collected issues hold one below the threshold
\* and one above it, scored below 10.0
C12_Witness ==
    /\ fb_feedback # [kind |-> "none"]
    /\ fb_threshold = "medium"
    /\ Len(fb_issues) = 2
    /\ \E k \in 1..2 : fb_issues[k].severity = "low"
    /\ Len(fb_feedback.issues) = 1
    /\ fb_feedback.overall_score < 100

\* the provider names that are recognised, in any mix of cases
C13_Recognised(name) ==
    lower(name) \in { <<"g","i","t","h","u","b">>, <<"g","i","t","l","a","b">>,
                       <<"b","i","t","b","u","c","k","e","t">> }

\* C13: a review asked for with a provider name that is not recognised ends
\* with an explicit error (ValueError) before anything else happens: the
\* descriptor is never requested, no content is fetched, no plugin operation
\* is called, no comment is posted, no feedback and no result are produced.
C13_UnknownProviderFails ==
    (pc \notin {"idle", "start"} /\ ~ C13_Recognised(provider)) =>
        /\ pc = "raised"
        /\ exc = "ValueError"
        /\ ~ g_requested
        /\ g_file = NoFile
        /\ g_found = <<>>
        /\ g_fetch_failed = {}
        /\ comments = <<>>
        /\ feedback = NoFeedback
        /\ result = NoResult

\* C13 witness: a review with plugins enabled and comments requested was asked
\* for with an unknown provider name and has failed
C13_Witness ==
    /\ pc = "raised"
    /\ exc = "ValueError"
    /\ ~ C13_Recognised(provider)
    /\ post_comments
    /\ analyzers # <<>>

\* C14: if get_pr_info fails, review_pr raises that failure to the caller: no
\* result and no feedback are produced, no file is fetched, no plugin is
\* called and no comment is posted.
C14_DescriptorFailureIsFatal ==
    exc = "get_pr_info" =>
        /\ pc = "raised"
        /\ g_requested
        /\ g_file = NoFile
        /\ g_found = <<>>
        /\ g_fetch_failed = {}
        /\ comments = <<>>
        /\ feedback = NoFeedback
        /\ result = NoResult

\* C14 witness: get_pr_info has failed in a review with plugins enabled and
\* comments requested
C14_Witness ==
    /\ pc = "raised"
    /\ exc = "get_pr_info"
    /\ post_comments
    /\ analyzers # <<>>

\* the excluded extensions of the claim
C15_Extensions ==
    { <<".","p","n","g">>, <<".","j","p","g">>, <<".","j","p","e","g">>,
      <<".","g","i","f">>, <<".","s","v","g">>, <<".","i","c","o">>,
      <<".","p","d","f">>, <<".","z","i","p">>, <<".","t","a","r">>,
      <<".","g","z">>, <<".","e","x","e">>, <<".","d","l","l">> }

C15_Excluded(path) ==
    \E ext \in C15_Extensions :
        /\ Len(ext) <= Len(path)
        /\ \A n \in 1..Len(ext) : lower(path)[Len(path) - Len(ext) + n] = ext[n]

\* a file with an excluded extension is never fetched and never handed to a plugin
C15_ExcludedUntouched ==
    /\ g_file.idx # 0 => ~ C15_Excluded(files_changed[g_file.idx])
    /\ \A n \in 1..Len(g_found) : ~ C15_Excluded(files_changed[g_found[n].file_path])
    /\ \A n \in g_fetch_failed : ~ C15_Excluded(files_changed[n])

\* C15: a changed file whose path ends, in any mix of cases, with an excluded
\* extension is never fetched and never handed to a plugin; every other
\* changed file is fetched and, once fetched, is offered to the
\* should_analyze of every enabled plugin.
C15_Eligibility ==
    /\ C15_ExcludedUntouched
    /\ (pc = "files" /\ i >= 2 /\ ~ C15_Excluded(files_changed[i - 1])) =>
          /\ g_file.idx = i - 1
          /\ (i - 1) \notin g_fetch_failed => g_file.should = 1..Len(analyzers)

\* the place of an issue in the order of the claim: file, plugin, line
C16_Key(issue) ==
    <<issue.file_path,
      CHOOSE p \in 1..Len(analyzers) : analyzers[p] = issue.rule_id,
      issue.line_number>>

C16_Before(x, y) ==
    \/ x[1] < y[1]
    \/ x[1] = y[1] /\ x[2] < y[2]
    \/ x[1] = y[1] /\ x[2] = y[2] /\ x[3] < y[3]

C16_Ordered(list) ==
    \A a, b \in 1..Len(list) : a < b => C16_Before(C16_Key(list[a]), C16_Key(list[b]))

\* C16: the collected issues, and the issues of the result, stand in the order
\* of the files in the descriptor, then of the plugins, then of emission by
\* the plugin; the issues of the result are the collected ones the threshold
\* keeps, in the order they were collected in.
C16_IssueOrder ==
    /\ C16_Ordered(all_issues)
    /\ pc = "done" =>
          /\ C16_Ordered(result.feedback.issues)
          /\ result.feedback.issues = C3_AtOrAbove(all_issues, config.severity_threshold)

\* C16 witness: the result holds two issues one plugin emitted on one file,
\* issues of two plugins and of two files, and the filter has removed some
C16_Witness ==
    /\ pc = "done"
    /\ Len(result.feedback.issues) < Len(all_issues)
    /\ \E a, b \in 1..Len(result.feedback.issues) :
          /\ a < b
          /\ result.feedback.issues[a].file_path = result.feedback.issues[b].file_path
          /\ result.feedback.issues[a].rule_id = result.feedback.issues[b].rule_id
    /\ \E a, b \in 1..Len(result.feedback.issues) :
          /\ result.feedback.issues[a].file_path = result.feedback.issues[b].file_path
          /\ result.feedback.issues[a].rule_id # result.feedback.issues[b].rule_id
    /\ \E a, b \in 1..Len(result.feedback.issues) :
          result.feedback.issues[a].file_path # result.feedback.issues[b].file_path

\* the fixed order of the breakdown: critical first
C17_Place == [critical |-> 1, high |-> 2, medium |-> 3, low |-> 4]

C17_Count(list, severity) ==
    Cardinality({n \in 1..Len(list) : list[n].severity = severity})

RECURSIVE C17_Sum(_, _)
C17_Sum(breakdown, n) ==
    IF n = 0 THEN 0 ELSE C17_Sum(breakdown, n - 1) + breakdown[n].count

\* C17: with no filtered issue the summary is the congratulatory message
\* naming additions + deletions and the number of changed files.  Otherwise it
\* states the number of filtered issues and the number of files, followed by
\* one breakdown entry per severity in the order critical, high, medium, low;
\* a severity has an entry exactly when its count is not zero, the entry names
\* that count, and the counts add up to the stated total.
C17_Summary ==
    fb_feedback # [kind |-> "none"] =>
        LET summary == fb_feedback.summary
            filtered == fb_feedback.issues
        IN  IF filtered = <<>>
            THEN /\ summary.kind = "great"
                 /\ summary.lines = fb_pr_info.additions + fb_pr_info.deletions
                 /\ summary.file_count = Len(fb_pr_info.files_changed)
            ELSE /\ summary.kind = "found"
                 /\ summary.issue_count = Len(filtered)
                 /\ summary.file_count = Len(fb_pr_info.files_changed)
                 /\ \A a, b \in 1..Len(summary.breakdown) :
                       a < b => C17_Place[summary.breakdown[a].severity]
                                    < C17_Place[summary.breakdown[b].severity]
                 /\ \A severity \in {"critical", "high", "medium", "low"} :
                       (\E a \in 1..Len(summary.breakdown) :
                            summary.breakdown[a].severity = severity)
                           <=> C17_Count(filtered, severity) > 0
                 /\ \A a \in 1..Len(summary.breakdown) :
                       summary.breakdown[a].count
                           = C17_Count(filtered, summary.breakdown[a].severity)
                 /\ C17_Sum(summary.breakdown, Len(summary.breakdown)) = summary.issue_count

\* C17 witness: a low and a critical issue were summarised, critical first
C17_Witness ==
    /\ fb_feedback # [kind |-> "none"]
    /\ Len(fb_feedback.issues) = 2
    /\ fb_feedback.issues[1].severity = "low"
    /\ fb_feedback.issues[2].severity = "critical"
    /\ fb_feedback.summary.kind = "found"
    /\ fb_feedback.summary.issue_count = 2
    /\ fb_feedback.summary.breakdown
          = <<[count |-> 1, severity |-> "critical"], [count |-> 1, severity |-> "low"]>>

C18_Has(text) ==
    \E n \in 1..Len(fb_feedback.strengths) : fb_feedback.strengths[n] = text

\* a changed path holds the marker, letters compared without regard to case
C18_SomePathHolds(marker) ==
    \E n \in 1..Len(fb_pr_info.files_changed) :
        \E at \in 0..(Len(fb_pr_info.files_changed[n]) - Len(marker)) :
            \A c \in 1..Len(marker) :
                lower(fb_pr_info.files_changed[n])[at + c] = marker[c]

\* C18: each of the four strengths is reported exactly when its own condition
\* holds, whatever the other three and whatever the issues: (a) additions > 0
\* and deletions > 0; (b) at most 10 changed files, none included; (c) some
\* changed path holds .md, .rst or .txt; (d) some changed path holds "test",
\* in any mix of cases.  Each is reported at most once.
C18_Strengths ==
    fb_feedback # [kind |-> "none"] =>
        /\ C18_Has("Good balance of additions and deletions")
              <=> (fb_pr_info.additions > 0 /\ fb_pr_info.deletions > 0)
        /\ C18_Has("Focused changes across reasonable number of files")
              <=> Len(fb_pr_info.files_changed) <= 10
        /\ C18_Has("Includes documentation updates")
              <=> \/ C18_SomePathHolds(<<".","m","d">>)
                  \/ C18_SomePathHolds(<<".","r","s","t">>)
                  \/ C18_SomePathHolds(<<".","t","x","t">>)
        /\ C18_Has("Includes test updates")
              <=> C18_SomePathHolds(<<"t","e","s","t">>)
        /\ \A a, b \in 1..Len(fb_feedback.strengths) :
              a # b => fb_feedback.strengths[a] # fb_feedback.strengths[b]

\* C18 witness: all four conditions hold on a change with a filtered issue,
\* and all four strengths are reported
C18_Witness ==
    /\ fb_feedback # [kind |-> "none"]
    /\ fb_feedback.issues # <<>>
    /\ fb_pr_info.additions > 0 /\ fb_pr_info.deletions > 0
    /\ Len(fb_pr_info.files_changed) = 2
    /\ Len(fb_feedback.strengths) = 4

\* a further witness of C18: only the documentation strength is reported,
\* for a change of more than 10 files without deletions
C18_OnlyDocumentation ==
    /\ fb_feedback # [kind |-> "none"]
    /\ Len(fb_pr_info.files_changed) > 10
    /\ fb_feedback.strengths = <<"Includes documentation updates">>

\* C19: for every non-empty issue list and every number of changed files the
\* score of _calculate_score is below 10.0 and not below 0.0.
C19_NonEmptyBelowTen ==
    sc_issues # <<>> => (0 <= sc_score /\ sc_score < 100)

RECURSIVE C20_P(_, _, _)
C20_P(list, table, n) ==
    IF n = 0 THEN 0 ELSE C20_P(list, table, n - 1) + table[list[n].severity]

\* C20: the penalty weights of the score are those the AnalysisConfig was
\* given.  Built with the table 0.1/0.3/0.7/1.5 or with the table
\* 0.1/0.5/1.0/2.0, the engine scores a filtered list with the table it was
\* built with: the score is within half a tenth of
\* max(0, 10 - P / sqrt(n)), P the sum of that table's weights.
C20_WeightsFromConfig ==
    (fl_kwargs # <<>> /\ fl_feedback.issues # <<>>) =>
        C7_Near(fl_feedback.overall_score,
                C20_P(fl_feedback.issues, fl_kwargs.severity_penalties,
                      Len(fl_feedback.issues)),
                IF fl_files = 0 THEN 1 ELSE fl_files)

\* with the table 0.1/0.3/0.7/1.5 the score follows the table
C20_AgentTableFollowed ==
    (/\ fl_kwargs # <<>>
     /\ fl_feedback.issues # <<>>
     /\ fl_kwargs.severity_penalties.medium = 3) =>
        C7_Near(fl_feedback.overall_score,
                C20_P(fl_feedback.issues, fl_kwargs.severity_penalties,
                      Len(fl_feedback.issues)),
                IF fl_files = 0 THEN 1 ELSE fl_files)

\* C21: a built-in plugin's analyze never raises; when the tool is missing,
\* runs into the timeout, crashes or prints something unparsable, analyze
\* returns an empty list; and no temporary file is left behind.
C21_Failed(outcome) ==
    \/ outcome.raises # "none"
    \/ outcome.returncode < 0
    \/ outcome.stdout = "garbage"

C21_AnalyzeNeverRaises ==
    /\ pl_pc # "raised"
    /\ pl_pc = "returned" => ~ pl_temp
    /\ (pl_pc = "returned" /\ C21_Failed(pl_outcome)) => pl_issues = <<>>

\* the temporary file is removed also when analyze raises
C21_TempFileRemoved == pl_pc \in {"returned", "raised"} => ~ pl_temp

\* analyze raises only in Bandit and Safety, only UnboundLocalError, and only
\* when the tool call itself raised
C21_OnlyUnboundJson ==
    pl_pc = "raised" =>
        /\ plugin \in JsonInExcept
        /\ pl_pending = "UnboundLocalError"
        /\ pl_outcome.raises \in {"FileNotFoundError", "TimeoutExpired"}

\* a failed tool call yields an issue only in Black, for output with exit
\* code 1
C21_OnlyBlackReports ==
    (pl_pc = "returned" /\ C21_Failed(pl_outcome) /\ pl_issues # <<>>)
        => plugin = "black" /\ pl_outcome.returncode = 1

\* C24: constructing the agent creates one plugin for every enabled flag and
\* none for a disabled one (no flag enabled: no plugin), in the order pylint,
\* flake8, black, mypy, bandit, safety, AI; calling the plugins leaves the
\* list as it was constructed.
C24_Order == <<"pylint", "flake8", "black", "mypy", "bandit", "safety", "ai_analysis">>

C24_Place(name) == CHOOSE n \in 1..Len(C24_Order) : C24_Order[n] = name

C24_OnePluginPerFlag ==
    /\ \A k \in 1..Len(pl_analyzers) : \E n \in 1..Len(C24_Order) : pl_analyzers[k] = C24_Order[n]
    /\ \A n \in 1..Len(C24_Order) :
          Cardinality({k \in 1..Len(pl_analyzers) : pl_analyzers[k] = C24_Order[n]})
              = (IF C24_Order[n] \in pl_config.enabled THEN 1 ELSE 0)
    /\ \A k, m \in 1..Len(pl_analyzers) :
          k < m => C24_Place(pl_analyzers[k]) < C24_Place(pl_analyzers[m])
    /\ pl_config.enabled = {} => pl_analyzers = <<>>

\* C24 witness: three flags enabled, and the third of the three plugins has
\* been called and has returned
C24_Witness ==
    /\ pl_config.enabled = {"ai_analysis", "flake8", "bandit"}
    /\ pl_analyzers = <<"flake8", "bandit", "ai_analysis">>
    /\ pl_k = 3
    /\ pl_pc = "returned"

\* C22: analyze_file.py does for one file what the engine does for a one-file
\* change: for the same issues both report the issues at or above the
\* severity threshold, and the same strengths.
C22_SameAsEngine ==
    fs_pc = "compared" =>
        /\ fs_feedback.issues = C3_AtOrAbove(fs_issues, fs_threshold)
        /\ fs_feedback.issues = fs_engine.issues
        /\ fs_feedback.strengths = fs_engine.strengths

\* where no issue is below the threshold the two issue lists agree
C22_SameIssuesUnfiltered ==
    (fs_pc = "compared" /\ fs_engine.issues = fs_issues)
        => fs_feedback.issues = fs_engine.issues

\* the two strengths agree for a file that is no documentation file
C22_SameStrengthsPlainFile ==
    (fs_pc = "compared" /\ fs_filename # readme_MD)
        => fs_feedback.strengths = fs_engine.strengths

\* C23: the feedback of a review_pr call is made of that call's descriptor and
\* of what the plugins returned in that call, whatever an earlier call on the
\* same agent had collected: the issues returned are findings of this call,
\* all of them that meet the threshold when no file was given up, the score is
\* the score of these issues over this call's files, and the metrics are
\* those of this call's files.
C23_Stateless ==
    pc = "done" =>
        /\ Len(result.feedback.issues) <= Len(g_found)
        /\ \A k \in 1..Len(result.feedback.issues) :
              \E m \in 1..Len(g_found) : result.feedback.issues[k] = g_found[m]
        /\ ~ g_aborted =>
              result.feedback.issues = C3_AtOrAbove(g_found, config.severity_threshold)
        /\ result.feedback.overall_score
              = agent_calculate_score(result.feedback.issues, Len(files_changed))
        /\ DOMAIN result.metrics \subseteq {files_changed[k] : k \in 1..Len(files_changed)}
        /\ \A path \in DOMAIN result.metrics :
              result.metrics[path] \subseteq {analyzers[k] : k \in 1..Len(analyzers)}

\* C23 witness: a second call, made after a call that had collected issues,
\* has reviewed a file on which the plugins found nothing and has returned a
\* feedback without issues and the score 10.0
C23_Witness ==
    /\ g_again
    /\ pc = "done"
    /\ analyzers # <<>>
    /\ Len(files_changed) = 1
    /\ g_file.analyze_ok # {}
    /\ g_found = <<>>
    /\ result.feedback.issues = <<>>
    /\ result.feedback.overall_score = 100

\* the post_comment calls _post_feedback_comments makes for the first n issues
\* of the feedback when every call returns: the summary, then one call with
\* file_path and line_number for each high or critical issue, in list order
C25_Inline(issue) ==
    [kind |-> "issue", severity |-> issue.severity,
     file_path |-> issue.file_path, line_number |-> issue.line_number]

C25_Expected(n) ==
    LET posted == SelectSeq(SubSeq(feedback.issues, 1, n),
                            LAMBDA issue : issue.severity \in {"high", "critical"})
    IN  <<[kind |-> "summary"]>> \o [k \in 1..Len(posted) |-> C25_Inline(posted[k])]

\* C25: comments are posted only when post_comments is requested, and only
\* after the file loop has ended and the feedback has been built; the first
\* one is the single summary comment, the ones after it are, in the order of
\* the filtered list, one inline comment with file path and line for each of
\* its high or critical issues; once review_pr has returned with posting
\* requested, the comments are exactly these, so that no low or medium issue
\* and no issue the threshold filter removed has a comment
C25_CommentsPosted ==
    /\ ~ post_comments => comments = <<>>
    /\ pc \in {"start", "pr_info", "files", "plugins", "analyze", "metrics", "name",
               "post_summary"} => comments = <<>>
    /\ comments # <<>> =>
          /\ i > Len(files_changed)
          /\ feedback # NoFeedback
          /\ feedback.issues = filter_issues(all_issues, config.severity_threshold)
          /\ comments[1] = [kind |-> "summary"]
          /\ \A k \in 2..Len(comments) :
                /\ comments[k].kind = "issue"
                /\ comments[k].severity \in {"high", "critical"}
                /\ get_severity_level(comments[k].severity)
                      >= get_severity_level(config.severity_threshold)
    /\ pc = "post_issues" => comments = C25_Expected(posting - 1)
    /\ (pc = "raised" /\ comments # <<>>) => comments = C25_Expected(posting - 1)
    /\ (pc = "done" /\ post_comments) => comments = C25_Expected(Len(feedback.issues))

\* C25 witness: review_pr has returned after posting the summary and an
\* inline comment, having passed over a medium issue of the filtered list,
\* with a low issue removed by the filter
C25_Witness ==
    /\ pc = "done"
    /\ post_comments
    /\ Len(comments) >= 2
    /\ \E k \in 1..Len(feedback.issues) : feedback.issues[k].severity = "medium"
    /\ \E k \in 1..Len(all_issues) :
          /\ all_issues[k].severity = "low"
          /\ \A m \in 1..Len(feedback.issues) : feedback.issues[m] # all_issues[k]

C26_Log == g_file.log

\* C26: among the calls made for a file, get_file_content is the first and
\* has returned before any plugin method is called; a plugin's analyze is
\* called right after the same plugin's should_analyze has returned true, and
\* its get_metrics right after its analyze has returned, so that neither is
\* called for a plugin whose should_analyze returned false or raised; while
\* analyze or get_metrics of a plugin is running, the call made last is that
\* should_analyze or that analyze
C26_CallOrder ==
    /\ \A k \in 1..Len(C26_Log) :
          /\ (C26_Log[k].op = "get_file_content") = (k = 1)
          /\ k > 1 =>
                /\ C26_Log[1].ended = "returned"
                /\ C26_Log[k].plugin \in 1..Len(analyzers)
          /\ C26_Log[k].op = "analyze" =>
                C26_Log[k - 1] = [op |-> "should_analyze", plugin |-> C26_Log[k].plugin,
                                  ended |-> "true"]
          /\ C26_Log[k].op = "get_metrics" =>
                /\ C26_Log[k - 1] = [op |-> "analyze", plugin |-> C26_Log[k].plugin,
                                     ended |-> "returned"]
                /\ C26_Log[k - 2] = [op |-> "should_analyze", plugin |-> C26_Log[k].plugin,
                                     ended |-> "true"]
    /\ pc = "plugins" => (C26_Log # <<>> /\ C26_Log[1].ended = "returned")
    /\ pc = "analyze" =>
          C26_Log[Len(C26_Log)] = [op |-> "should_analyze", plugin |-> j, ended |-> "true"]
    /\ pc = "metrics" =>
          C26_Log[Len(C26_Log)] = [op |-> "analyze", plugin |-> j, ended |-> "returned"]

\* C26 witness: on one file the first plugin's should_analyze has returned
\* false and the second plugin's should_analyze, analyze and get_metrics have
\* been called in this order
C26_Witness ==
    /\ Len(C26_Log) = 5
    /\ C26_Log[2] = [op |-> "should_analyze", plugin |-> 1, ended |-> "false"]
    /\ C26_Log[3] = [op |-> "should_analyze", plugin |-> 2, ended |-> "true"]
    /\ C26_Log[4].op = "analyze"
    /\ C26_Log[5].op = "get_metrics"

\* the analyze calls of the plugin at an index among the calls made for the file
C27_AnalyzeCalls(log, p) ==
    {k \in 1..Len(log) : log[k].op = "analyze" /\ log[k].plugin = p}

\* one step of review_pr: the file index stays or moves to the next path of
\* the descriptor; a file is fetched only between two files, when no plugin
\* call of the file before is pending, and it is the file at the index; the
\* plugin index stays or moves to the next plugin while a file is handled;
\* and no plugin's analyze has been called twice for the file
C27_Step ==
    pc' # "start" =>
        /\ pc # "pr_info" => i' \in {i, i + 1}
        /\ g_file'.idx # g_file.idx =>
              /\ pc = "files"
              /\ g_file'.idx = i
              /\ g_file.idx < i
              /\ j \in {0, Len(analyzers) + 1}
        /\ (pc \in {"plugins", "analyze", "metrics", "name"} /\ pc' # "files") =>
              j' \in {j, j + 1}
        /\ \A p \in 1..Len(analyzers) :
              Cardinality(C27_AnalyzeCalls(g_file'.log, p)) <= 1

\* C27: once the provider and the descriptor are there and posting is not
\* requested, review_pr returns a PRReviewResult whatever get_file_content
\* and the plugin calls do, as long as each of them returns or raises; on the
\* way the files are handled one at a time in the order of files_changed, the
\* plugins one at a time in the order of self.analyzers, analyze is called at
\* most once per plugin for a file, and a file is fetched only when every
\* plugin call of the file before has ended
C27_ReturnsResult ==
    /\ [][C27_Step]_vars
    /\ (pc = "files" /\ ~ post_comments) ~> (pc = "done" /\ result # NoResult)

\* C27 witness: review_pr has returned a result without posting, after the
\* fetch of the first file raised and a plugin's analyze raised on the second
C27_Witness ==
    /\ pc = "done"
    /\ ~ post_comments
    /\ result # NoResult
    /\ g_fetch_failed = {1}
    /\ g_file.idx = 2
    /\ g_file.analyze_raised # {}

\* the plugins whose get_metrics raised on the file handled last
C28_MetricsRaised ==
    {g_file.log[k].plugin : k \in {m \in 1..Len(g_file.log) :
                                      /\ g_file.log[m].op = "get_metrics"
                                      /\ g_file.log[m].ended = "raised"}}

\* on the file handled last a plugin's get_metrics raised after its analyze
\* had returned, the except clause ran to its end, and _analyze_file returned
C28_Scenario ==
    /\ FileLeft
    /\ C28_MetricsRaised # {}
    /\ ~ g_file.aborted

\* C28: a plugin whose get_metrics raises on a file is one whose analyze had
\* returned on it; while the file is handled the issues collected are all the
\* findings so far and the metrics hold no key of such a plugin; once
\* _analyze_file has returned, the issues added for the file are all the
\* findings of the analyze calls, this plugin's included (in the feedback:
\* those that meet the threshold), the metrics of the file hold no key of the
\* plugin, and should_analyze of every plugin has been called for the file
C28_MetricsFailureKeepsIssues ==
    /\ C28_MetricsRaised \subseteq g_file.analyze_ok
    /\ (pc \in {"plugins", "analyze", "metrics", "name"}) =>
          /\ issues = FileFound
          /\ \A p \in C28_MetricsRaised : analyzers[p] \notin metrics
    /\ C28_Scenario =>
          /\ FileIssues = FileFound
          /\ \A p \in C28_MetricsRaised :
                analyzers[p] \notin all_metrics[files_changed[g_file.idx]]
          /\ g_file.should = 1..Len(analyzers)
          /\ pc = "done" =>
                /\ SelectSeq(result.feedback.issues,
                             LAMBDA issue : issue.file_path = g_file.idx)
                       = C3_AtOrAbove(FileFound, config.severity_threshold)
                /\ \A p \in C28_MetricsRaised :
                      analyzers[p] \notin result.metrics[files_changed[g_file.idx]]

\* C28 witness: the first plugin's analyze returned issues and its get_metrics
\* raised, the second plugin gave its metrics, and the review returned an
\* issue of the first plugin
C28_Witness ==
    /\ pc = "done"
    /\ C28_Scenario
    /\ C28_MetricsRaised = {1}
    /\ Len(analyzers) >= 2
    /\ analyzers[2] \in result.metrics[files_changed[g_file.idx]]
    /\ \E k \in 1..Len(result.feedback.issues) :
          /\ result.feedback.issues[k].file_path = g_file.idx
          /\ result.feedback.issues[k].rule_id = analyzers[1]

\* C29: the files_analyzed entry of a returned result is the number of paths
\* in files_changed, whatever happened to the files; it is at least the
\* number of files with an entry in the metrics and at least the number of
\* files with an issue in the feedback
C29_FilesAnalyzed ==
    result # NoResult =>
        /\ result.files_analyzed = Len(files_changed)
        /\ result.files_analyzed >= Cardinality(DOMAIN result.metrics)
        /\ result.files_analyzed
              >= Cardinality({result.feedback.issues[k].file_path :
                                 k \in 1..Len(result.feedback.issues)})

\* C29 witness: of two changed files one was not eligible and the fetch of
\* the other raised; the result counts two files and holds nothing of either
C29_Witness ==
    /\ pc = "done"
    /\ Len(files_changed) = 2
    /\ ~ should_analyze_file(files_changed[1])
    /\ g_fetch_failed = {2}
    /\ result.files_analyzed = 2
    /\ DOMAIN result.metrics = {}
    /\ result.feedback.issues = <<>>

\* C30: when a post_comment call has raised, review_pr has raised with it and
\* returned no result, although the file loop had ended and the feedback had
\* been built, and the post_comment calls made before it are the summary and
\* the inline comments of the issues walked so far; when post_comment calls
\* have returned False, the feedback still holds the issues of all_issues the
\* threshold keeps, and once review_pr has returned, the result carries this
\* feedback and the calls made are the summary and the inline comments of all
\* its high and critical issues
C30_PostFailure ==
    /\ exc = "post_comment" =>
          /\ pc = "raised"
          /\ result = NoResult
          /\ post_comments
          /\ i > Len(files_changed)
          /\ feedback # NoFeedback
          /\ feedback.issues = filter_issues(all_issues, config.severity_threshold)
          /\ comments = IF posting = 0 THEN <<>> ELSE C25_Expected(posting - 1)
    /\ g_refused =>
          /\ feedback # NoFeedback
          /\ feedback.issues = filter_issues(all_issues, config.severity_threshold)
          /\ pc = "done" =>
                /\ result.feedback = feedback
                /\ comments = C25_Expected(Len(feedback.issues))

\* C30 witness: review_pr has raised from the third post_comment call, after
\* the summary and an inline comment had been posted and one of the two calls
\* had returned False
C30_Witness ==
    /\ pc = "raised"
    /\ exc = "post_comment"
    /\ Len(comments) = 2
    /\ g_refused
    /\ feedback.issues # <<>>
    /\ result = NoResult

====
